---- MODULE Spec2Model ----
EXTENDS Integers, Sequences, FiniteSets, TLC

(***************************************************************************)
(* r3current: the physics world (src/src/physics/index.js, the impulse     *)
(* based variant, lines 483-1100), the animation state machine             *)
(* (src/unnamed/part_005) and the brick serialisation.                     *)
(*                                                                         *)
(* Numbers.  The program computes in IEEE doubles.  Here a number is a     *)
(* fixed-point integer counting hundredths: 1.0 is SCALE, a product is     *)
(* rounded to the nearest hundredth (ties away from zero, so that the      *)
(* arithmetic stays sign-symmetric like the doubles').  Lengths are        *)
(* pixels, velocities pixels per second, angles radians.  Time is counted  *)
(* in ticks of 1/TICKS second, so that 1/60 s and 1/120 s are exact.       *)
(***************************************************************************)

VARIABLES
    world,      \* the physics world: [width, height, bodies, bricks]
    before,     \* history: the world as it was when the last step was called
    stepCount,  \* number of step(world, dt) calls made so far
    anim,       \* the AnimationController's fields
    actor,      \* the actor last handed to AnimationController.update
    det,        \* a pair of bodies and the two detectCollision results
    store,      \* serialised bricks and the world they are loaded into
    run,        \* a call in progress: step inside its loops, or the runtime's
                \* update inside its sub-step loop, with its accumulator
    hero,       \* the Player: its jump timers, its input and its body
    editor      \* the LevelEditor's fields

vars == <<world, before, stepCount, anim, actor, det, store, run, hero, editor>>

-----------------------------------------------------------------------------
(* Fixed-point arithmetic *)

SCALE == 10 * 10
TICKS == 60 * 100

Abs(a) == IF a < 0 THEN -a ELSE a
Min(a, b) == IF a < b THEN a ELSE b
Max(a, b) == IF a > b THEN a ELSE b

\* a / b for b > 0, rounded to the nearest integer, ties away from zero
RDiv(a, b) == IF a >= 0 THEN (2 * a + b) \div (2 * b)
                        ELSE -((2 * (-a) + b) \div (2 * b))

\* the product and the quotient of two fixed-point numbers
Mul(a, b) == RDiv(a * b, SCALE)
Div(a, b) == IF b > 0 THEN RDiv(a * SCALE, b) ELSE RDiv((-a) * SCALE, -b)

\* v * dt for dt given in ticks
MulDt(v, dt) == RDiv(v * dt, TICKS)

RECURSIVE SqrtSearch(_, _, _)
SqrtSearch(n, lo, hi) ==
    IF lo >= hi THEN lo
    ELSE LET mid == (lo + hi + 1) \div 2
         IN IF mid * mid <= n THEN SqrtSearch(n, mid, hi)
                              ELSE SqrtSearch(n, lo, mid - 1)

\* Math.sqrt(dx*dx + dy*dy) of fixed-point dx, dy, given n = dx*dx + dy*dy
\* (in squared units): the nearest integer to the square root
Sqrt(n) ==
    LET nearest(r) == IF n - r * r > r THEN r + 1 ELSE r
    IN nearest(SqrtSearch(n, 0, 46340))

\* Infinity, the initial value of the running minima
Infinity == 2000000000

-----------------------------------------------------------------------------
(* Program constants of the impulse-based physics *)

GRAVITY == 1800
FRICTION == 85                 \* 0.85
AIR_RESISTANCE == 995          \* 0.995, in thousandths
MIN_VELOCITY == 10             \* 0.1
DEFAULT_DENSITY == 100         \* 1.0
DEFAULT_RESTITUTION == 30      \* 0.3
ANGULAR_DAMPING == 98          \* 0.98
FLOOR_HEIGHT == 60             \* pixels (core/constants.js)
PI == 314                      \* Math.PI
DEFAULT_COLOR == <<80, 40, 20, 100>>   \* [0.8, 0.4, 0.2, 1.0]

\* Math.cos and Math.sin on the rotations the model uses (radians, fixed point):
\* 0, atan(3/4), pi/2 and pi, and the negatives of the first two
Cos(r) == CASE r = 0 -> 100
            [] r = 64 -> 80
            [] r = -64 -> 80
            [] r = 157 -> 0
            [] r = -157 -> 0
            [] r = 314 -> -100
            [] OTHER -> 100

Sin(r) == CASE r = 0 -> 0
            [] r = 64 -> 60
            [] r = -64 -> -60
            [] r = 157 -> 100
            [] r = -157 -> -100
            [] r = 314 -> 0
            [] OTHER -> 0

-----------------------------------------------------------------------------
(* Geometry kernel *)

\* transformCorner: rotate a normalised corner about (0.5, 0.5), then map it
\* into the body's box
transformCorner(body, cornerX, cornerY) ==
    LET cos == Cos(body.rotation)
        sin == Sin(body.rotation)
        offsetX == cornerX - 50
        offsetY == cornerY - 50
        rotatedX == Mul(offsetX, cos) - Mul(offsetY, sin)
        rotatedY == Mul(offsetX, sin) + Mul(offsetY, cos)
        localX == rotatedX + 50
        localY == rotatedY + 50
    IN [x |-> body.x + Mul(localX, body.w), y |-> body.y + Mul(localY, body.h)]

getVertices(body) ==
    IF body.shape = "rect" THEN
        << transformCorner(body, 0, 0), transformCorner(body, 100, 0),
           transformCorner(body, 100, 100), transformCorner(body, 0, 100) >>
    ELSE IF body.shape = "triangle" THEN
        << transformCorner(body, 50, 0), transformCorner(body, 100, 100),
           transformCorner(body, 0, 100) >>
    ELSE << >>

\* { x: NaN, y: NaN }: 0 / 0 and -0 / 0 in doubles
NaNAxis == [nan |-> TRUE]

isNaN(axis) == "nan" \in DOMAIN axis

\* the normal of the edge leaving vertex i; an edge of length 0 has the
\* normal (-0 / 0, 0 / 0)
edgeNormal(vertices, i) ==
    LET unit(edgeX, edgeY, len) ==
            IF len = 0 THEN NaNAxis
            ELSE [x |-> Div(-edgeY, len), y |-> Div(edgeX, len)]
        along(edgeX, edgeY) == unit(edgeX, edgeY, Sqrt(edgeX * edgeX + edgeY * edgeY))
        between(v1, v2) == along(v2.x - v1.x, v2.y - v1.y)
    IN between(vertices[i], vertices[(i % Len(vertices)) + 1])

RECURSIVE projMin(_, _, _, _)
projMin(vertices, axis, i, acc) ==
    IF i > Len(vertices) THEN acc
    ELSE projMin(vertices, axis, i + 1,
                 Min(acc, Mul(vertices[i].x, axis.x) + Mul(vertices[i].y, axis.y)))

RECURSIVE projMax(_, _, _, _)
projMax(vertices, axis, i, acc) ==
    IF i > Len(vertices) THEN acc
    ELSE projMax(vertices, axis, i + 1,
                 Max(acc, Mul(vertices[i].x, axis.x) + Mul(vertices[i].y, axis.y)))

projectPolygon(vertices, axis) ==
    [min |-> projMin(vertices, axis, 1, Infinity),
     max |-> projMax(vertices, axis, 1, -Infinity)]

NotColliding == [colliding |-> FALSE]

-----------------------------------------------------------------------------
(* Collision detector *)

detectCircleCircle(a, b) ==
    LET ax == a.x + RDiv(a.w, 2)
        ay == a.y + RDiv(a.h, 2)
        bx == b.x + RDiv(b.w, 2)
        by == b.y + RDiv(b.h, 2)
        ra == RDiv(Min(a.w, a.h), 2)
        rb == RDiv(Min(b.w, b.h), 2)
        contact(dx, dy, dist, overlap) ==
            IF overlap > 0
            THEN [colliding |-> TRUE, overlap |-> overlap,
                  normal |-> IF dist > 0 THEN [x |-> Div(dx, dist), y |-> Div(dy, dist)]
                                         ELSE [x |-> 100, y |-> 0]]
            ELSE NotColliding
        apart(dx, dy, dist) == contact(dx, dy, dist, ra + rb - dist)
        offset(dx, dy) == apart(dx, dy, Sqrt(dx * dx + dy * dy))
    IN offset(bx - ax, by - ay)

projectCircleAndPolygon(cx, cy, r, normalX, normalY, vertices) ==
    LET compare(circleMin, circleMax, poly) ==
            IF circleMax < poly.min \/ poly.max < circleMin
            THEN [overlapping |-> FALSE]
            ELSE [overlapping |-> TRUE,
                  overlap |-> Min(circleMax - poly.min, poly.max - circleMin)]
        around(circleProj) ==
            compare(circleProj - r, circleProj + r,
                    projectPolygon(vertices, [x |-> normalX, y |-> normalY]))
    IN around(Mul(cx, normalX) + Mul(cy, normalY))

\* the loop over the polygon's edges; acc is [colliding, overlap, normal]
RECURSIVE circleEdges(_, _, _, _, _, _)
circleEdges(cx, cy, r, vertices, i, acc) ==
    LET tested(n, result) ==
            IF ~result.overlapping THEN NotColliding
            ELSE circleEdges(cx, cy, r, vertices, i + 1,
                    IF result.overlap < acc.overlap
                    THEN [colliding |-> TRUE, overlap |-> result.overlap, normal |-> n]
                    ELSE acc)
        \* on a NaN normal every projection is NaN: no comparison holds, the
        \* axis neither separates nor lowers the minimum
        axis(n) == IF isNaN(n) THEN circleEdges(cx, cy, r, vertices, i + 1, acc)
                   ELSE tested(n, projectCircleAndPolygon(cx, cy, r, n.x, n.y, vertices))
    IN IF i > Len(vertices) THEN acc ELSE axis(edgeNormal(vertices, i))

\* the vertex closest to the circle's centre (the first of the closest ones)
RECURSIVE closestVertex(_, _, _, _, _, _)
closestVertex(cx, cy, vertices, i, closestDist, closest) ==
    LET compare(dist) ==
            IF dist < closestDist
            THEN closestVertex(cx, cy, vertices, i + 1, dist, i)
            ELSE closestVertex(cx, cy, vertices, i + 1, closestDist, closest)
        offset(dx, dy) == compare(dx * dx + dy * dy)
    IN IF i > Len(vertices) THEN closest
       ELSE offset(vertices[i].x - cx, vertices[i].y - cy)

detectCirclePolygon(circle, poly) ==
    LET cx == circle.x + RDiv(circle.w, 2)
        cy == circle.y + RDiv(circle.h, 2)
        r == RDiv(Min(circle.w, circle.h), 2)
        start == [colliding |-> TRUE, overlap |-> Infinity, normal |-> [x |-> 0, y |-> 0]]
        tested(edges, normalX, normalY, result) ==
            IF ~result.overlapping THEN NotColliding
            ELSE IF result.overlap < edges.overlap
            THEN [colliding |-> TRUE, overlap |-> result.overlap,
                  normal |-> [x |-> normalX, y |-> normalY]]
            ELSE edges
        axis(vertices, edges, normalX, normalY) ==
            tested(edges, normalX, normalY,
                   projectCircleAndPolygon(cx, cy, r, normalX, normalY, vertices))
        toward(vertices, edges, dx, dy, len) ==
            IF len > 0 THEN axis(vertices, edges, Div(dx, len), Div(dy, len)) ELSE edges
        offset(vertices, edges, dx, dy) ==
            toward(vertices, edges, dx, dy, Sqrt(dx * dx + dy * dy))
        vertexAxis(vertices, edges, cv) == offset(vertices, edges, cx - cv.x, cy - cv.y)
        edgeAxes(vertices, edges) ==
            IF ~edges.colliding THEN NotColliding
            ELSE vertexAxis(vertices, edges,
                            vertices[closestVertex(cx, cy, vertices, 1, Infinity, 1)])
        against(vertices) ==
            IF Len(vertices) = 0 THEN NotColliding
            ELSE edgeAxes(vertices, circleEdges(cx, cy, r, vertices, 1, start))
    IN against(getVertices(poly))

\* the axes of detectPolygonPolygon: the edge normals of A, then those of B
polygonAxes(verticesA, verticesB) ==
    [i \in 1..Len(verticesA) |-> edgeNormal(verticesA, i)] \o
    [i \in 1..Len(verticesB) |-> edgeNormal(verticesB, i)]

\* the loop over the axes; acc is [colliding, overlap, normal]
RECURSIVE testAxes(_, _, _, _, _)
testAxes(verticesA, verticesB, axes, i, acc) ==
    LET lower(overlap) ==
            testAxes(verticesA, verticesB, axes, i + 1,
                     IF overlap < acc.overlap
                     THEN [colliding |-> TRUE, overlap |-> overlap, normal |-> axes[i]]
                     ELSE acc)
        compare(projA, projB) ==
            IF projA.max < projB.min \/ projB.max < projA.min THEN NotColliding
            ELSE lower(Min(projA.max - projB.min, projB.max - projA.min))
    IN IF i > Len(axes) THEN acc
       \* on a NaN axis every projection is NaN: no comparison holds, the
       \* axis neither separates nor lowers the minimum
       ELSE IF isNaN(axes[i]) THEN testAxes(verticesA, verticesB, axes, i + 1, acc)
       ELSE compare(projectPolygon(verticesA, axes[i]), projectPolygon(verticesB, axes[i]))

\* the post-hoc orientation of the polygon-polygon normal: from B toward A
orientNormal(a, b, normal) ==
    LET dx == (a.x + RDiv(a.w, 2)) - (b.x + RDiv(b.w, 2))
        dy == (a.y + RDiv(a.h, 2)) - (b.y + RDiv(b.h, 2))
        dot == Mul(dx, normal.x) + Mul(dy, normal.y)
    IN IF dot < 0 THEN [x |-> -normal.x, y |-> -normal.y] ELSE normal

detectPolygonPolygon(a, b) ==
    LET start == [colliding |-> TRUE, overlap |-> Infinity, normal |-> [x |-> 0, y |-> 0]]
        oriented(found) ==
            IF ~found.colliding THEN NotColliding
            ELSE [found EXCEPT !.normal = orientNormal(a, b, found.normal)]
        between(verticesA, verticesB) ==
            IF Len(verticesA) = 0 \/ Len(verticesB) = 0 THEN NotColliding
            ELSE oriented(testAxes(verticesA, verticesB,
                                   polygonAxes(verticesA, verticesB), 1, start))
    IN between(getVertices(a), getVertices(b))

detectCollision(a, b) ==
    LET flipped(result) ==
            IF result.colliding
            THEN [result EXCEPT !.normal = [x |-> -result.normal.x, y |-> -result.normal.y]]
            ELSE result
    IN IF a.shape = "circle" /\ b.shape = "circle" THEN detectCircleCircle(a, b)
       ELSE IF a.shape = "circle" /\ b.shape # "circle" THEN detectCirclePolygon(a, b)
       ELSE IF a.shape # "circle" /\ b.shape = "circle"
       THEN flipped(detectCirclePolygon(b, a))
       ELSE detectPolygonPolygon(a, b)

-----------------------------------------------------------------------------
(* Bodies *)

IM_SCALE == 1000 * 1000        \* inverse masses are counted in millionths

\* mass > 0 ? 1 / mass : 0
invMassOf(mass) == IF mass > 0 THEN RDiv(IM_SCALE * SCALE, mass) ELSE 0

\* Calculate mass based on shape and dimensions
calculateMass(shape, w, h, density) ==
    LET area == IF shape = "circle" THEN Mul(Mul(PI, RDiv(w, 2)), RDiv(h, 2))
                ELSE IF shape = "triangle" THEN RDiv(Mul(w, h), 2)
                ELSE Mul(w, h)
    IN Mul(area, density)

\* is field f of the options object present (not undefined)?
Has(opts, f) == f \in DOMAIN opts

\* Math.round of a fixed-point number: the nearest integer, ties toward +Infinity
MathRound(v) == ((2 * v + SCALE) \div (2 * SCALE)) * SCALE

\* the body brick() builds; id is the fresh identity of the new object
newBrick(id, x, y, w, h, opts) ==
    LET shape == IF Has(opts, "shape") /\ opts.shape # "" THEN opts.shape ELSE "rect"
        density == IF Has(opts, "density") /\ opts.density # 0
                   THEN opts.density ELSE DEFAULT_DENSITY
        mass == IF Has(opts, "mass") /\ opts.mass # 0
                THEN opts.mass ELSE calculateMass(shape, w, h, density)
    IN [id |-> id, x |-> x, y |-> y, w |-> w, h |-> h, vx |-> 0, vy |-> 0,
        rotation |-> IF Has(opts, "rotation") THEN opts.rotation ELSE 0,
        angularVelocity |-> IF Has(opts, "angularVelocity") THEN opts.angularVelocity ELSE 0,
        isStatic |-> TRUE, onGround |-> FALSE, shape |-> shape,
        color |-> IF Has(opts, "color") THEN opts.color ELSE DEFAULT_COLOR,
        z |-> IF Has(opts, "z") THEN MathRound(opts.z) ELSE 0,
        mass |-> mass, invMass |-> invMassOf(mass),
        restitution |-> IF Has(opts, "restitution") THEN opts.restitution
                        ELSE DEFAULT_RESTITUTION,
        density |-> density]

\* brick(world, x, y, w, h, opts): the body is pushed on both lists;
\* world.bricks holds references (ids) to bodies of world.bodies
brick(w0, id, x, y, w, h, opts) ==
    [w0 EXCEPT !.bodies = Append(@, newBrick(id, x, y, w, h, opts)),
               !.bricks = Append(@, id)]

\* new Character(x, y, options): the dynamic body of the player
Character(x, y, w, h, restitution) ==
    LET mass == Mul(Mul(w, h), SCALE)
    IN [id |-> "player", x |-> x, y |-> y, w |-> w, h |-> h, vx |-> 0, vy |-> 0,
        rotation |-> 0, angularVelocity |-> 0, isStatic |-> FALSE,
        onGround |-> FALSE, shape |-> "rect", color |-> DEFAULT_COLOR, z |-> 0,
        mass |-> mass, invMass |-> invMassOf(mass),
        restitution |-> restitution, density |-> SCALE]

createWorld(width, height) ==
    [width |-> width, height |-> height, bodies |-> << >>, bricks |-> << >>]

-----------------------------------------------------------------------------
(* Collision resolver *)

\* the velocity change of a body of inverse mass invMass under the impulse
\* j / invMassSum: (j / invMassSum) * invMass
impulseShare(j, invMass, invMassSum) == RDiv(j * invMass, invMassSum)

\* the restitution used for the impulse
chosenRestitution(body, other) ==
    Min(body.restitution,
        IF other.restitution # 0 THEN other.restitution ELSE body.restitution)

\* the inverse mass resolveCollision uses for the other body
otherInvMassOf(other) == IF other.isStatic THEN 0 ELSE other.invMass

\* resolveCollision(body, other, result): the two bodies afterwards
resolveCollision(body, other, result) ==
    LET overlap == result.overlap
        normal == result.normal
        relVelX == body.vx - other.vx
        relVelY == body.vy - other.vy
        restitution == chosenRestitution(body, other)
        bodyInvMass == body.invMass
        otherInvMass == otherInvMassOf(other)
        invMassSum == bodyInvMass + otherInvMass
        isGroundCollision == normal.y < -30
        isCeilingCollision == normal.y > 30
        tangentX == -normal.y
        tangentY == normal.x
        \* torque = contactOffset x impulse, both multiples of the normal: the
        \* cross product of the two directions is taken exactly, before rounding
        half == Min(body.w, body.h)
        cross == (normal.x * half) * normal.y - (normal.y * half) * normal.x
        spun(b, dvBody) ==
            [b EXCEPT !.angularVelocity = @ + RDiv(Mul(dvBody, cross), 2 * SCALE * SCALE)]
        ceilinged(pushed) ==
            IF pushed.vy < 0 THEN [pushed EXCEPT !.vy = RDiv(@, 2)] ELSE pushed
        clamped(pushed, rubbedVx, rubbedVy) ==
            [pushed EXCEPT
                !.onGround = TRUE,
                !.vx = IF Abs(rubbedVx) < MIN_VELOCITY THEN 0 ELSE rubbedVx,
                !.vy = IF Abs(rubbedVy) < MIN_VELOCITY THEN 0 ELSE rubbedVy]
        rubbed(pushed, frictionMagnitude) ==
            clamped(pushed,
                    pushed.vx + RDiv(Mul(-tangentX, frictionMagnitude) * bodyInvMass,
                                     IM_SCALE),
                    pushed.vy + RDiv(Mul(-tangentY, frictionMagnitude) * bodyInvMass,
                                     IM_SCALE))
        grounded(pushed, velAlongTangent) ==
            rubbed(pushed, Mul(Abs(velAlongTangent), FRICTION))
        otherAfter(dvOther) ==
            IF ~other.isStatic /\ otherInvMass > 0
            THEN [other EXCEPT !.vx = @ - Mul(dvOther, normal.x),
                               !.vy = @ - Mul(dvOther, normal.y)]
            ELSE other
        handled(pushed, dvBody) ==
            IF isGroundCollision
            THEN grounded(pushed, Mul(relVelX, tangentX) + Mul(relVelY, tangentY))
            ELSE IF isCeilingCollision THEN spun(ceilinged(pushed), dvBody)
            ELSE spun(pushed, dvBody)
        applied(moved, dvBody, dvOther) ==
            [body |-> handled([moved EXCEPT !.vx = @ + Mul(dvBody, normal.x),
                                            !.vy = @ + Mul(dvBody, normal.y)],
                              dvBody),
             other |-> otherAfter(dvOther)]
        impulse(moved, j) ==
            applied(moved, impulseShare(j, bodyInvMass, invMassSum),
                    impulseShare(j, otherInvMass, invMassSum))
        approaching(moved, velAlongNormal) ==
            IF velAlongNormal > 0 THEN [body |-> moved, other |-> other]
            ELSE IF invMassSum = 0 THEN [body |-> moved, other |-> other]
            ELSE impulse(moved, Mul(-(SCALE + restitution), velAlongNormal))
    IN approaching([body EXCEPT !.x = @ + Mul(normal.x, overlap),
                                !.y = @ + Mul(normal.y, overlap)],
                   Mul(relVelX, normal.x) + Mul(relVelY, normal.y))

-----------------------------------------------------------------------------
(* World stepper *)

maxIterations == 5

\* the first normalisation loop alone
RECURSIVE normalizeDownward(_)
normalizeDownward(r) == IF r > PI THEN normalizeDownward(r - 2 * PI) ELSE r

\* while (rotation > Math.PI) rotation -= 2 * Math.PI;
\* while (rotation < -Math.PI) rotation += 2 * Math.PI, for the rotations on
\* which the loops end
RECURSIVE normalizeRotation(_)
normalizeRotation(r) ==
    IF r > PI THEN normalizeRotation(r - 2 * PI)
    ELSE IF r < -PI THEN normalizeRotation(r + 2 * PI)
    ELSE r

\* gravity, air resistance, angular damping and the integration of one body
integrate(body, dt) ==
    LET vyG == body.vy + MulDt(GRAVITY * SCALE, dt)
        vx1 == IF ~body.onGround THEN RDiv(body.vx * AIR_RESISTANCE, 1000) ELSE body.vx
        vy1 == IF ~body.onGround THEN RDiv(vyG * AIR_RESISTANCE, 1000) ELSE vyG
        av0 == Mul(body.angularVelocity, ANGULAR_DAMPING)
        av1 == IF Abs(av0) < 1 THEN 0 ELSE av0
    IN [body EXCEPT !.vx = vx1, !.vy = vy1, !.angularVelocity = av1,
                    !.x = @ + MulDt(vx1, dt), !.y = @ + MulDt(vy1, dt),
                    !.rotation = normalizeRotation(@ + MulDt(av1, dt)),
                    !.onGround = FALSE]

\* -body.vx * body.restitution, stopped when small
bounceX(body) ==
    LET v == Mul(-body.vx, body.restitution)
    IN IF Abs(v) < MIN_VELOCITY THEN 0 ELSE v

\* World bounds with restitution
worldBounds(body, width) ==
    LET left == IF body.x < 0
                THEN [body EXCEPT !.x = 0, !.vx = bounceX(body)] ELSE body
    IN IF left.x + left.w > width
       THEN [left EXCEPT !.x = width - left.w, !.vx = bounceX(left)] ELSE left

\* Floor collision with restitution
floorCollision(body, height) ==
    LET floorY == height - FLOOR_HEIGHT * SCALE
        bounceVelocity == Mul(-body.vy, body.restitution)
    IN IF body.y + body.h > floorY
       THEN IF Abs(bounceVelocity) > MIN_VELOCITY * 2
            THEN [body EXCEPT !.y = floorY - body.h, !.vy = bounceVelocity]
            ELSE [body EXCEPT !.y = floorY - body.h, !.vy = 0, !.onGround = TRUE,
                              !.vx = Mul(@, FRICTION)]
       ELSE body

\* one pass of the inner loop: body i against every static body from j on
RECURSIVE resolvePass(_, _, _, _)
resolvePass(bodies, i, j, hadCollision) ==
    LET resolved(r) ==
            resolvePass([bodies EXCEPT ![i] = r.body, ![j] = r.other], i, j + 1, TRUE)
        detected(result) ==
            IF result.colliding
            THEN resolved(resolveCollision(bodies[i], bodies[j], result))
            ELSE resolvePass(bodies, i, j + 1, hadCollision)
    IN IF j > Len(bodies) THEN [bodies |-> bodies, hadCollision |-> hadCollision]
       ELSE IF ~bodies[j].isStatic \/ j = i
       THEN resolvePass(bodies, i, j + 1, hadCollision)
       ELSE detected(detectCollision(bodies[i], bodies[j]))

\* the while loop: up to maxIterations passes, or until a pass has no collision
RECURSIVE collisionLoop(_, _, _)
collisionLoop(bodies, i, collisionIterations) ==
    LET after(pass) ==
            IF ~pass.hadCollision THEN pass.bodies
            ELSE collisionLoop(pass.bodies, i, collisionIterations + 1)
    IN IF collisionIterations >= maxIterations THEN bodies
       ELSE after(resolvePass(bodies, i, 1, FALSE))

velocityThresholdAirborneToo(body) ==
    [body EXCEPT !.vx = IF Abs(@) < MIN_VELOCITY THEN 0 ELSE @,
                 !.vy = IF Abs(@) < MIN_VELOCITY THEN 0 ELSE @]

\* Apply velocity threshold to stop jittering
velocityThreshold(body) ==
    [body EXCEPT !.vx = IF Abs(@) < MIN_VELOCITY THEN 0 ELSE @,
                 !.vy = IF Abs(@) < MIN_VELOCITY /\ body.onGround THEN 0 ELSE @]

\* the body of the for loop of step, for body i, up to the velocity threshold
stepBodyRaw(w0, bodies, i, dt) ==
    LET placed == floorCollision(worldBounds(integrate(bodies[i], dt), w0.width),
                                 w0.height)
    IN collisionLoop([bodies EXCEPT ![i] = placed], i, 0)

stepBody(w0, bodies, i, dt) ==
    LET raw == stepBodyRaw(w0, bodies, i, dt)
    IN [raw EXCEPT ![i] = velocityThreshold(@)]

skippedNever(body) == FALSE

\* if (body.isStatic) continue
skipped(body) == body.isStatic

RECURSIVE stepFrom(_, _, _, _)
stepFrom(w0, bodies, i, dt) ==
    IF i > Len(bodies) THEN bodies
    ELSE IF skipped(bodies[i]) THEN stepFrom(w0, bodies, i + 1, dt)
    ELSE stepFrom(w0, stepBody(w0, bodies, i, dt), i + 1, dt)

\* step(world, dt), dt in ticks
step(w0, dt) == [w0 EXCEPT !.bodies = stepFrom(w0, w0.bodies, 1, dt)]

-----------------------------------------------------------------------------
(* The fixed sub-step and the worlds the physics is run on *)

FIXED_DT == 100                \* 1/60 s, in ticks

VIRTUAL_WIDTH == 1920
VIRTUAL_HEIGHT == 1080

Idle == << >>

\* the restitutions a dynamic body is given: 0, 0.01, the Character's default
\* 0.2 and the bricks' default 0.3
Restitutions == {0, 1, 20, 30}

emptyWorld == createWorld(VIRTUAL_WIDTH * SCALE, VIRTUAL_HEIGHT * SCALE)

withBody(w0, body) == [w0 EXCEPT !.bodies = Append(@, body)]

\* a 40 x 48 character dropped from y = 0 into a world without bricks
dropWorld(r) == withBody(emptyWorld, Character(100 * SCALE, 0, 40 * SCALE, 48 * SCALE, r))

\* a 40 x 48 character whose bottom edge lies exactly on the top edge of a
\* static 200 x 50 rect at (100, 500)
restingWorld(r, opts) ==
    withBody(brick(emptyWorld, "b1", 100 * SCALE, 500 * SCALE, 200 * SCALE, 50 * SCALE, opts),
             Character(150 * SCALE, 452 * SCALE, 40 * SCALE, 48 * SCALE, r))

\* the dynamic bodies of a world
Dynamic(w0) == {i \in DOMAIN w0.bodies : ~w0.bodies[i].isStatic}
Static(w0) == {i \in DOMAIN w0.bodies : w0.bodies[i].isStatic}

-----------------------------------------------------------------------------
(* SpecFall: step(world, 1/60) called again and again by the frame loop *)

InitFall ==
    /\ world \in {dropWorld(r) : r \in Restitutions}
                 \cup {restingWorld(r, [restitution |-> e]) :
                         r \in Restitutions, e \in {0, DEFAULT_RESTITUTION}}
    /\ stepCount = 0
    /\ before = Idle
    /\ anim = Idle /\ actor = Idle /\ det = Idle /\ store = Idle
    /\ run = Idle /\ hero = Idle /\ editor = Idle

\* the step counter of this specification wraps around, to keep it finite
StepCountWrap == 2

FallStep ==
    /\ world' = step(world, FIXED_DT)
    /\ stepCount' = (stepCount + 1) % StepCountWrap
    /\ UNCHANGED <<before, anim, actor, det, store, run, hero, editor>>

\* every FallStep advances the counter and nothing else does: the frame loop
\* keeps calling step, which is stated as fairness of the counter's advance
Advance == stepCount' = (stepCount + 1) % StepCountWrap

SpecFall == InitFall /\ [][FallStep]_vars /\ WF_stepCount(Advance)

Dropped == Len(world.bricks) = 0
Resting == Len(world.bricks) = 1

player == world.bodies[CHOOSE i \in DOMAIN world.bodies : ~world.bodies[i].isStatic]

\* C1 (as claimed): a body of any restitution in [0,1] dropped onto the floor
\* eventually has y = 972 and onGround, and keeps both on every later step.
C1_FloorSettles ==
    <>[](Dropped => (player.y = 972 * SCALE /\ player.onGround))

\* C2 (as claimed): a dynamic rect placed exactly on a static rect converges to
\* vy = 0, onGround and its initial y after every step.
C2_RestingContact ==
    <>[](Resting => (player.vy = 0 /\ player.onGround /\ player.y = 452 * SCALE))

-----------------------------------------------------------------------------
(* SpecStep: step(world, 1/60) on worlds with bricks of every shape *)

MaxSteps == 8

\* a character with a given velocity
moving(body, vx, vy) == [body EXCEPT !.vx = vx, !.vy = vy]

\* the brick layouts: [x, y, w, h, opts] in pixels, around a player at (300, 300)
Layouts ==
    { << >>,
      << <<250, 348, 200, 50, [restitution |-> 0]>> >>,
      << <<250, 340, 200, 50, [shape |-> "rect"]>> >>,
      << <<280, 330, 80, 80, [shape |-> "circle"]>> >>,
      << <<260, 330, 120, 60, [shape |-> "triangle", rotation |-> 64]>> >>,
      << <<335, 250, 50, 200, [shape |-> "rect"]>>, <<250, 348, 85, 50, [shape |-> "rect"]>> >>,
      << <<250, 262, 200, 40, [shape |-> "rect", rotation |-> 314]>> >> }

RECURSIVE withBricks(_, _, _)
withBricks(w0, layout, k) ==
    IF k > Len(layout) THEN w0
    ELSE withBricks(brick(w0, <<"brick", k>>, layout[k][1] * SCALE, layout[k][2] * SCALE,
                          layout[k][3] * SCALE, layout[k][4] * SCALE, layout[k][5]),
                    layout, k + 1)

\* the places the player starts from: mid-air next to the bricks, just above
\* the floor, and at the left and right edges of the world
Starts == { <<300, 300>>, <<300, 970>>, <<0, 900>>, <<1880, 900>> }

StartVx == {0, 9, 36000, -36000}
StartVy == {0, -2995, -72000}

InitStep ==
    /\ \E layout \in Layouts, at \in Starts, vx \in StartVx, vy \in StartVy,
          r \in {0, 20} :
          world = withBody(withBricks(emptyWorld, layout, 1),
                           moving(Character(at[1] * SCALE, at[2] * SCALE,
                                            40 * SCALE, 48 * SCALE, r), vx, vy))
    /\ before = world
    /\ stepCount = 0
    /\ anim = Idle /\ actor = Idle /\ det = Idle /\ store = Idle
    /\ run = Idle /\ hero = Idle /\ editor = Idle

Step ==
    /\ stepCount < MaxSteps
    /\ before' = world
    /\ world' = step(world, FIXED_DT)
    /\ stepCount' = stepCount + 1
    /\ UNCHANGED <<anim, actor, det, store, run, hero, editor>>

SpecStep == InitStep /\ [][Step]_vars

\* the dynamic body i of the world as the last step left it just before the
\* velocity threshold
rawBody(i) == stepBodyRaw(before, before.bodies, i, FIXED_DT)[i]

\* C3: after every step, a non-static body with |vx| < MIN_VELOCITY has vx = 0,
\* a grounded one with |vy| < MIN_VELOCITY has vy = 0, and the vy of an
\* airborne body is the one the step computed, however small.
C3_JitterEliminated ==
    stepCount > 0 =>
        \A i \in Dynamic(world) :
            LET b == world.bodies[i]
            IN /\ Abs(b.vx) < MIN_VELOCITY => b.vx = 0
               /\ (b.onGround /\ Abs(b.vy) < MIN_VELOCITY) => b.vy = 0
               /\ ~b.onGround => b.vy = rawBody(i).vy

\* C3 witness: a step that ended with a small non-zero vx, which the
\* threshold set to 0, on an airborne body whose small non-zero vy was kept
C3_Witness ==
    /\ stepCount > 0
    /\ \E i \in Dynamic(world) :
          /\ rawBody(i).vx # 0 /\ Abs(rawBody(i).vx) < MIN_VELOCITY
          /\ world.bodies[i].vx = 0
          /\ ~world.bodies[i].onGround
          /\ world.bodies[i].vy # 0 /\ Abs(world.bodies[i].vy) < MIN_VELOCITY

\* C4: a step leaves every static body as it was: x, y, vx, vy, rotation,
\* onGround and every other field.
C4_StaticUnmoved ==
    stepCount > 0 =>
        \A i \in DOMAIN world.bodies :
            before.bodies[i].isStatic => world.bodies[i] = before.bodies[i]

\* C4 witness: a step in which the player was grounded by a brick (above the
\* floor): the contact was resolved with an impulse
C4_Witness ==
    /\ stepCount > 0
    /\ \E i \in Dynamic(world) :
          /\ world.bodies[i].onGround
          /\ world.bodies[i].y + world.bodies[i].h
                < world.height - FLOOR_HEIGHT * SCALE
          /\ world.bodies[i].vy # 0

-----------------------------------------------------------------------------
(* Animation pose engine: the state machine of AnimationController.  The    *)
(* skeleton's interpolation toward the pose, the lagged visual position and *)
(* totalTime are drawing state and are left out.                            *)

squashStretch == 20            \* config.squashStretch, 0.20
landSpeed == 15                \* config.speeds.land
turnSpeed == 12                \* config.speeds.turn
LAND_HOLD == 900               \* 0.15 s, in ticks

Airborne == {"jump_up", "peak", "fall"}

\* new AnimationController()
newController ==
    [currentState |-> "idle", previousState |-> "idle", stateTime |-> 0,
     landSquash |-> 0, landSquashDecay |-> 0,
     facingRight |-> TRUE, turnProgress |-> 0]

\* the landing test of determineState, which also latches the squash
detectsLanding(a, act) ==
    a.previousState \in Airborne /\ act.onGround /\ a.currentState # "land"

\* a land hold cut short
holdsLandBriefly(a) == a.currentState = "land" /\ a.stateTime < LAND_HOLD \div 3

\* the land hold of determineState
holdsLand(a) == a.currentState = "land" /\ a.stateTime < LAND_HOLD

\* determineState with the jump_up threshold taken inclusively
determineStateInclusive(a, act) ==
    IF detectsLanding(a, act) THEN "land"
    ELSE IF holdsLand(a) THEN "land"
    ELSE IF ~act.onGround THEN
        IF act.vy <= -100 * SCALE THEN "jump_up"
        ELSE IF act.vy < 100 * SCALE THEN "peak"
        ELSE "fall"
    ELSE IF Abs(act.vx) > 10 * SCALE THEN "walk"
    ELSE "idle"

\* determineState(player): the state returned
determineState(a, act) ==
    IF detectsLanding(a, act) THEN "land"
    ELSE IF holdsLand(a) THEN "land"
    ELSE IF ~act.onGround THEN
        IF act.vy < -100 * SCALE THEN "jump_up"
        ELSE IF act.vy < 100 * SCALE THEN "peak"
        ELSE "fall"
    ELSE IF Abs(act.vx) > 10 * SCALE THEN "walk"
    ELSE "idle"

\* a turn that is complete on the first opposing update
turnCompletedAtOnce(progress) == TRUE

\* if (this.turnProgress >= 1)
turnCompleted(progress) == progress >= SCALE

\* update(player, dt), dt in ticks: the controller afterwards
update(a, act, dt) ==
    LET nextState == determineState(a, act)
        squash0 == IF detectsLanding(a, act) THEN squashStretch ELSE a.landSquash
        decay0 == IF detectsLanding(a, act) THEN landSpeed ELSE a.landSquashDecay
        targetFacing == IF act.vx > 0 THEN TRUE
                        ELSE IF act.vx < 0 THEN FALSE ELSE a.facingRight
        progress == Min(SCALE, a.turnProgress + MulDt(turnSpeed * SCALE, dt))
    IN [currentState |-> nextState,
        previousState |-> IF nextState # a.currentState THEN a.currentState
                          ELSE a.previousState,
        stateTime |-> IF nextState # a.currentState THEN 0 ELSE a.stateTime + dt,
        landSquash |-> IF squash0 > 0 THEN Max(0, squash0 - MulDt(decay0 * SCALE, dt))
                       ELSE squash0,
        landSquashDecay |-> decay0,
        facingRight |-> IF targetFacing # a.facingRight /\ turnCompleted(progress)
                        THEN targetFacing ELSE a.facingRight,
        turnProgress |-> IF targetFacing # a.facingRight /\ ~turnCompleted(progress)
                         THEN progress ELSE 0]

-----------------------------------------------------------------------------
(* SpecAnim: a controller updated once per sub-step with any actor *)

MaxStateTime == 1200

\* the actors: vx around the walk threshold 10 and of both signs, vy around
\* the thresholds -100 and 100, grounded or not
Actors ==
    [vx : {0, 10 * SCALE, 10 * SCALE + 1, -50 * SCALE},
     vy : {-100 * SCALE - 1, -100 * SCALE, 100 * SCALE - 1, 100 * SCALE},
     onGround : BOOLEAN]

InitAnim ==
    /\ anim = newController
    /\ actor \in Actors
    /\ world = Idle /\ before = Idle /\ stepCount = 0 /\ det = Idle /\ store = Idle
    /\ run = Idle /\ hero = Idle /\ editor = Idle

Update ==
    \E act \in Actors :
        /\ (determineState(anim, act) = anim.currentState)
              => anim.stateTime + FIXED_DT <= MaxStateTime
        /\ anim' = update(anim, act, FIXED_DT)
        /\ actor' = act
        /\ UNCHANGED <<world, before, stepCount, det, store, run, hero, editor>>

SpecAnim == InitAnim /\ [][Update]_vars

\* C5 (as claimed): an update with a grounded actor in state fall, whatever
\* previousState is, sets currentState to land
C5_LandingFromFall ==
    [][(anim.currentState = "fall" /\ actor'.onGround)
          => anim'.currentState = "land"]_vars

\* C6: in land an update keeps land while stateTime < 0.15 whatever the actor
\* is; land is left only on an update with stateTime >= 0.15; and stateTime
\* is reset to 0 exactly when the state changes, and grows by dt otherwise
C6_LandHold ==
    [][/\ (anim.currentState = "land" /\ anim.stateTime < LAND_HOLD)
             => anim'.currentState = "land"
       /\ (anim.currentState = "land" /\ anim'.currentState # "land")
             => anim.stateTime >= LAND_HOLD
       /\ (anim'.currentState # anim.currentState) <=> (anim'.stateTime = 0)
       /\ (anim'.currentState = anim.currentState)
             => anim'.stateTime = anim.stateTime + FIXED_DT]_vars

\* C6 witness: land held over an update whose actor had left the ground at
\* walking speed
C6_Witness ==
    /\ anim.currentState = "land" /\ anim.stateTime > 0
    /\ ~actor.onGround /\ Abs(actor.vx) > 10 * SCALE

\* C7: with previousState not airborne and outside the land hold,
\* determineState maps every actor to jump_up, peak, fall, walk or idle by
\* the thresholds on onGround, vy and |vx|
C7_StateMapping ==
    (/\ anim.previousState \notin {"jump_up", "peak", "fall"}
     /\ ~(anim.currentState = "land" /\ anim.stateTime < LAND_HOLD))
    => \A act \in Actors :
         LET s == determineState(anim, act)
         IN /\ (s = "jump_up") <=> (~act.onGround /\ act.vy < -100 * SCALE)
            /\ (s = "peak") <=> (/\ ~act.onGround /\ -100 * SCALE <= act.vy
                                 /\ act.vy < 100 * SCALE)
            /\ (s = "fall") <=> (~act.onGround /\ act.vy >= 100 * SCALE)
            /\ (s = "walk") <=> (act.onGround /\ Abs(act.vx) > 10 * SCALE)
            /\ (s = "idle") <=> (act.onGround /\ Abs(act.vx) <= 10 * SCALE)

\* C7 witness: a controller that came from idle and has just been kept in
\* jump_up by an airborne actor at vy < -100
C7_Witness ==
    /\ anim.previousState = "idle" /\ anim.currentState = "jump_up"
    /\ anim.stateTime > 0
    /\ ~actor.onGround /\ actor.vy < -100 * SCALE

\* C14: facingRight changes only on an update whose vx opposes the facing and
\* on which turnProgress plus dt * speeds.turn reaches 1.0, and turnProgress
\* is 0 afterwards; an update whose vx is 0 or agrees with the facing resets
\* turnProgress to 0; an opposing update short of 1.0 stores the sum and keeps
\* the facing, so that the first opposing update never flips it
C14_DebouncedFacing ==
    [][LET opposes == \/ actor'.vx > 0 /\ ~anim.facingRight
                      \/ actor'.vx < 0 /\ anim.facingRight
           accumulated == anim.turnProgress + MulDt(turnSpeed * SCALE, FIXED_DT)
       IN /\ anim'.facingRight # anim.facingRight =>
                opposes /\ accumulated >= SCALE /\ anim'.turnProgress = 0
          /\ ~opposes => anim'.turnProgress = 0
          /\ (opposes /\ accumulated < SCALE) =>
                anim'.turnProgress = accumulated /\ anim'.facingRight = anim.facingRight
          /\ (opposes /\ anim.turnProgress = 0) =>
                anim'.facingRight = anim.facingRight]_vars

\* C14 witness: the controller, built facing right, faces left after the
\* update of an actor moving left, the accumulator back at 0
C14_Witness ==
    /\ newController.facingRight
    /\ ~anim.facingRight /\ actor.vx < 0 /\ anim.turnProgress = 0

-----------------------------------------------------------------------------
(* SpecDetect: detectCollision applied to a pair of bodies, in both orders *)

DetectShapes == {"rect", "circle", "triangle"}
DetectRotations == {0, 64}
DetectSizes == {<<20, 20>>, <<10, 10>>, <<4, 30>>}
DetectXs == {0, 3, 10, 25}
DetectYs == {-5, 0, 15}

\* a body of the given shape, as brick() builds it
shaped(id, x, y, size, shape, rotation) ==
    newBrick(id, x * SCALE, y * SCALE, size[1] * SCALE, size[2] * SCALE,
             [shape |-> shape, rotation |-> rotation])

BodiesA ==
    {shaped("a", 0, 0, size, shape, rotation) :
        size \in {<<20, 20>>, <<10, 10>>}, shape \in DetectShapes,
        rotation \in DetectRotations}

BodiesB ==
    UNION {{shaped("b", x, y, size, shape, rotation) :
               x \in DetectXs, y \in DetectYs, size \in DetectSizes} :
           shape \in DetectShapes, rotation \in DetectRotations}

InitDetect ==
    /\ det \in [a : BodiesA, b : BodiesB, results : {<< >>}]
    /\ world = Idle /\ before = Idle /\ stepCount = 0 /\ anim = Idle
    /\ actor = Idle /\ store = Idle
    /\ run = Idle /\ hero = Idle /\ editor = Idle

Detect ==
    /\ det.results = << >>
    /\ det' = [det EXCEPT !.results = <<detectCollision(det.a, det.b),
                                        detectCollision(det.b, det.a)>>]
    /\ UNCHANGED <<world, before, stepCount, anim, actor, store, run, hero, editor>>

SpecDetect == InitDetect /\ [][Detect]_vars

centreX(body) == body.x + RDiv(body.w, 2)
centreY(body) == body.y + RDiv(body.h, 2)

\* C8 (as claimed): the two orders agree on colliding, and when colliding the
\* overlaps are equal and the normals are exact opposites
C8_Symmetric ==
    det.results # << >> =>
        LET ab == det.results[1]
            ba == det.results[2]
        IN /\ ab.colliding = ba.colliding
           /\ ab.colliding =>
                 /\ ab.overlap = ba.overlap
                 /\ ab.normal.x = -ba.normal.x
                 /\ ab.normal.y = -ba.normal.y

\* C9 (as claimed): for colliding bodies with distinct centres the normal of
\* detectCollision(a, b) has a non-negative dot product with
\* centre(a) - centre(b)
C9_NormalTowardA ==
    (/\ det.results # << >>
     /\ det.results[1].colliding
     /\ <<centreX(det.a), centreY(det.a)>> # <<centreX(det.b), centreY(det.b)>>)
    => LET n == det.results[1].normal
       IN Mul(centreX(det.a) - centreX(det.b), n.x)
          + Mul(centreY(det.a) - centreY(det.b), n.y) >= 0

-----------------------------------------------------------------------------
(* Serialization of the bricks.  A property that is undefined in the code   *)
(* is a field the record does not have.                                     *)

\* removeBrick filtering world.bricks alone
removeBrickFromBricks(w0, id) ==
    [w0 EXCEPT !.bricks = SelectSeq(@, LAMBDA i : i # id)]

\* world.bodies.filter(b => b !== brick), world.bricks likewise
removeBrick(w0, id) ==
    [w0 EXCEPT !.bodies = SelectSeq(@, LAMBDA b : b.id # id),
               !.bricks = SelectSeq(@, LAMBDA i : i # id)]

\* the body a reference of world.bricks points to
bodyOf(w0, id) == CHOOSE b \in {w0.bodies[i] : i \in 1..Len(w0.bodies)} : b.id = id

\* one element of serializeBricks
serializeBrick(b) ==
    [x |-> b.x, y |-> b.y, w |-> b.w, h |-> b.h, shape |-> b.shape,
     color |-> b.color, rotation |-> b.rotation, z |-> b.z]
    @@ (IF b.density # DEFAULT_DENSITY THEN [density |-> b.density] ELSE << >>)
    @@ (IF b.restitution # DEFAULT_RESTITUTION THEN [restitution |-> b.restitution]
        ELSE << >>)

serializeBricks(w0) ==
    [k \in 1..Len(w0.bricks) |-> serializeBrick(bodyOf(w0, w0.bricks[k]))]

\* the values loadBricks meets as data and as its elements: an array or not;
\* null (or undefined), whose property reads throw; a primitive, whose
\* properties read undefined; an object, given by its properties.  A property
\* holding a non-number reads like an absent one under typeof ... === 'number'
jsArray(items) == [isArray |-> TRUE, items |-> items]
notArray == [isArray |-> FALSE]
jsNull == [kind |-> "null"]
jsPrimitive == [kind |-> "primitive", fields |-> << >>]
jsObject(fields) == [kind |-> "object", fields |-> fields]

\* typeof item.x === 'number' && ... && typeof item.h === 'number'
numericBox(item) == {"x", "y", "w", "h"} \subseteq DOMAIN item.fields

\* the options of loadBricks with z forgotten
loadOptsWithoutZ(item) ==
    [shape |-> IF Has(item, "shape") /\ item.shape # "" THEN item.shape ELSE "rect",
     color |-> IF Has(item, "color") THEN item.color ELSE DEFAULT_COLOR,
     rotation |-> IF Has(item, "rotation") THEN item.rotation ELSE 0]
    @@ (IF Has(item, "density") THEN [density |-> item.density] ELSE << >>)
    @@ (IF Has(item, "restitution") THEN [restitution |-> item.restitution] ELSE << >>)

\* the options loadBricks hands to brick() for one item
loadOpts(item) ==
    [shape |-> IF Has(item, "shape") /\ item.shape # "" THEN item.shape ELSE "rect",
     color |-> IF Has(item, "color") THEN item.color ELSE DEFAULT_COLOR,
     rotation |-> IF Has(item, "rotation") THEN item.rotation ELSE 0,
     z |-> IF Has(item, "z") THEN MathRound(item.z) ELSE 0]
    @@ (IF Has(item, "density") THEN [density |-> item.density] ELSE << >>)
    @@ (IF Has(item, "restitution") THEN [restitution |-> item.restitution] ELSE << >>)

\* data.forEach from element k on; n objects were created before the call, so
\* the brick of element k is the fresh object n + k.  A throw ends the call
\* and leaves the bricks of the earlier elements in the world
RECURSIVE loadFrom(_, _, _, _)
loadFrom(w0, items, k, n) ==
    LET added(item) ==
            brick(w0, <<"brick", n + k>>, item.x, item.y, item.w, item.h, loadOpts(item))
    IN IF k > Len(items) THEN [world |-> w0, threw |-> FALSE]
       ELSE IF items[k].kind = "null" THEN [world |-> w0, threw |-> TRUE]
       ELSE IF numericBox(items[k]) THEN loadFrom(added(items[k].fields), items, k + 1, n)
       ELSE loadFrom(w0, items, k + 1, n)

\* loadBricks(world, data): the world afterwards and whether the call threw
loadBricks(w0, data, n) ==
    IF ~data.isArray THEN [world |-> w0, threw |-> FALSE]
    ELSE loadFrom(w0, data.items, 1, n)

\* what JSON.parse gives back for the saved serializeBricks(world)
parsed(serialized) ==
    jsArray([k \in 1..Len(serialized) |-> jsObject(serialized[k])])

-----------------------------------------------------------------------------
(* SpecStore: bricks are added to and removed from a world, which is then   *)
(* serialized and loaded into a fresh world                                 *)

MaxBricks == 2

\* the opts handed to brick(): none, a falsy shape, each shape, fractional
\* and negative z, default and non-default density and restitution
BrickOpts ==
    << << >>,
       [shape |-> ""],
       [shape |-> "circle", z |-> 150],
       [shape |-> "triangle", rotation |-> 64, z |-> -250],
       [color |-> <<10, 20, 30, 100>>, rotation |-> -157, z |-> 300],
       [density |-> 200, restitution |-> 0],
       [density |-> DEFAULT_DENSITY, restitution |-> DEFAULT_RESTITUTION, mass |-> 500] >>

BrickXs == {12050}
BrickSizes == {<<4000, 2550>>}

\* the data a load at startup may be handed: not an array, or an array of
\* up to two elements, each a full object, an object with the box alone, an
\* object lacking x or h, null or a primitive
LoadItems ==
    << jsObject([x |-> 500, y |-> 30000, w |-> 4000, h |-> 2550, shape |-> "circle",
                 color |-> <<10, 20, 30, 100>>, rotation |-> 64, z |-> 150]),
       jsObject([x |-> 0, y |-> 30000, w |-> 4000, h |-> 2550]),
       jsObject([y |-> 30000, w |-> 4000, h |-> 2550, shape |-> "rect"]),
       jsObject([x |-> 0, y |-> 30000, w |-> 4000]),
       jsNull,
       jsPrimitive >>

LoadData ==
    {notArray, jsArray(<< >>)}
    \cup {jsArray(<<LoadItems[i]>>) : i \in 1..Len(LoadItems)}
    \cup {jsArray(<<LoadItems[i], LoadItems[j]>>) :
             i \in 1..Len(LoadItems), j \in 1..Len(LoadItems)}

\* the world of the runtime: the player is the first body
InitStore ==
    /\ world = withBody(createWorld(VIRTUAL_WIDTH * SCALE, VIRTUAL_HEIGHT * SCALE),
                        [Character(100 * SCALE, 100 * SCALE, 40 * SCALE, 48 * SCALE, 20)
                            EXCEPT !.id = <<"player", 0>>])
    /\ store = [data |-> << >>, fresh |-> createWorld(0, 0), loaded |-> FALSE,
                created |-> 0, input |-> notArray, prior |-> Idle, outcome |-> "none",
                removed |-> Idle]
    /\ before = Idle /\ stepCount = 0 /\ anim = Idle /\ actor = Idle /\ det = Idle
    /\ run = Idle /\ hero = Idle /\ editor = Idle

AddBrick ==
    \E x \in BrickXs, size \in BrickSizes, k \in 1..Len(BrickOpts) :
        /\ Len(world.bricks) < MaxBricks
        /\ store.created < MaxBricks + 1
        /\ world' = brick(world, <<"brick", store.created + 1>>, x, 30000,
                          size[1], size[2], BrickOpts[k])
        /\ store' = [store EXCEPT !.loaded = FALSE, !.created = @ + 1,
                                  !.prior = world, !.outcome = "brick",
                                  !.removed = Idle]
        /\ UNCHANGED <<before, stepCount, anim, actor, det, run, hero, editor>>

RemoveBrick ==
    \E k \in 1..Len(world.bricks) :
        /\ world' = removeBrick(world, world.bricks[k])
        /\ store' = [store EXCEPT !.loaded = FALSE, !.prior = world,
                                  !.outcome = "removeBrick",
                                  !.removed = world.bricks[k]]
        /\ UNCHANGED <<before, stepCount, anim, actor, det, run, hero, editor>>

\* loadBricks(this.world, JSON.parse(saved)) at startup
Load ==
    \E data \in LoadData :
        LET applied(result) ==
                /\ world' = result.world
                /\ store' = [store EXCEPT
                                !.loaded = FALSE, !.input = data, !.prior = world,
                                !.outcome = IF result.threw THEN "threw" ELSE "loadBricks",
                                !.removed = Idle,
                                !.created = IF data.isArray THEN Len(data.items) ELSE 0]
        IN /\ store.created = 0 /\ store.outcome = "none"
           /\ applied(loadBricks(world, data, 0))
           /\ UNCHANGED <<before, stepCount, anim, actor, det, run, hero, editor>>

SaveAndLoad ==
    /\ ~store.loaded
    /\ LET data == serializeBricks(world)
       IN store' = [store EXCEPT
                       !.data = data,
                       !.fresh = loadBricks(createWorld(world.width, world.height),
                                            parsed(data), 0).world,
                       !.loaded = TRUE]
    /\ UNCHANGED <<world, before, stepCount, anim, actor, det, run, hero, editor>>

SpecStore == InitStore /\ [][AddBrick \/ RemoveBrick \/ Load \/ SaveAndLoad]_vars

\* C10: after loadBricks(freshWorld, serializeBricks(world)) the fresh world
\* has as many bricks as the world, in the same order, each equal to the
\* original on x, y, w, h, shape, color, rotation and z
C10_RoundTrip ==
    store.loaded =>
        /\ Len(store.fresh.bricks) = Len(world.bricks)
        /\ \A k \in 1..Len(world.bricks) :
              LET orig == bodyOf(world, world.bricks[k])
                  copy == bodyOf(store.fresh, store.fresh.bricks[k])
              IN /\ copy.x = orig.x /\ copy.y = orig.y
                 /\ copy.w = orig.w /\ copy.h = orig.h
                 /\ copy.shape = orig.shape /\ copy.color = orig.color
                 /\ copy.rotation = orig.rotation /\ copy.z = orig.z

\* C10 witness: a world of two bricks has been saved and loaded, one of them
\* a rotated triangle off the default layer
C10_Witness ==
    /\ store.loaded /\ Len(world.bricks) = MaxBricks
    /\ Len(store.fresh.bricks) = MaxBricks
    /\ \E k \in 1..Len(world.bricks) :
          LET orig == bodyOf(world, world.bricks[k])
          IN orig.shape = "triangle" /\ orig.rotation # 0 /\ orig.z # 0

\* C11 (as claimed): loadBricks never throws; an array adds one brick (one
\* body) for each element that is an object with numeric x, y, w and h and
\* nothing for the others; a non-array leaves the world as it was
C11_TolerantLoad ==
    store.outcome \in {"loadBricks", "threw"} =>
        /\ store.outcome = "loadBricks"
        /\ IF store.input.isArray
           THEN LET items == store.input.items
                    good == Cardinality({k \in 1..Len(items) :
                                /\ items[k].kind = "object"
                                /\ {"x", "y", "w", "h"} \subseteq DOMAIN items[k].fields})
                IN /\ Len(world.bricks) = Len(store.prior.bricks) + good
                   /\ Len(world.bodies) = Len(store.prior.bodies) + good
           ELSE world = store.prior

\* C17 (as claimed): every static body of the world has invMass = 0
C17_StaticInvMassZero ==
    \A i \in DOMAIN world.bodies :
        world.bodies[i].isStatic => world.bodies[i].invMass = 0

\* the identities of the bodies of a world
bodyIds(w0) == {w0.bodies[i].id : i \in DOMAIN w0.bodies}
brickIds(w0) == {w0.bricks[k] : k \in DOMAIN w0.bricks}

\* C19: every element of world.bricks is a static body of world.bodies, once
\* in each list; brick() appends the new body to both lists; removeBrick()
\* leaves the brick in neither list and every other body, the player
\* included, where it was
C19_ListsConsistent ==
    /\ brickIds(world) \subseteq bodyIds(world)
    /\ \A id \in brickIds(world) : bodyOf(world, id).isStatic
    /\ Cardinality(brickIds(world)) = Len(world.bricks)
    /\ Cardinality(bodyIds(world)) = Len(world.bodies)
    /\ store.outcome = "brick" =>
          /\ Len(world.bodies) = Len(store.prior.bodies) + 1
          /\ SubSeq(world.bodies, 1, Len(store.prior.bodies)) = store.prior.bodies
          /\ world.bricks = Append(store.prior.bricks, world.bodies[Len(world.bodies)].id)
          /\ world.bodies[Len(world.bodies)].id \notin bodyIds(store.prior)
    /\ store.outcome = "removeBrick" =>
          /\ store.removed \notin brickIds(world)
          /\ store.removed \notin bodyIds(world)
          /\ world.bodies = SelectSeq(store.prior.bodies, LAMBDA b : b.id # store.removed)
          /\ Len(world.bodies) = Len(store.prior.bodies) - 1
          /\ \E i \in DOMAIN world.bodies : ~world.bodies[i].isStatic

\* C19 witness: one of two bricks, one of them loaded, has been removed
C19_Witness ==
    /\ store.outcome = "removeBrick"
    /\ store.input.isArray /\ Len(store.input.items) > 0
    /\ Len(store.prior.bricks) = MaxBricks
    /\ Len(world.bricks) = MaxBricks - 1

-----------------------------------------------------------------------------
(* The loops of step for one dynamic body, one iteration at a time *)

\* body.rotation -= 2 * Math.PI in doubles: Infinity, and every double so
\* large that its neighbours are more than 2 * Math.PI away (from 2^56 on),
\* is left as it is; Infinity stands for all of them
lessTurn(r) == IF r >= Infinity THEN r ELSE r - 2 * PI

\* body.rotation += 2 * Math.PI in doubles
moreTurn(r) == IF r <= -Infinity THEN r ELSE r + 2 * PI

\* body.rotation += body.angularVelocity * dt in doubles
turned(r, av, dt) ==
    IF r >= Infinity \/ r <= -Infinity THEN r ELSE r + MulDt(av, dt)

\* the iterations of one normalisation loop are counted modulo TurnWrap
TurnWrap == 2

\* the static bodies the collision pass visits
MaxStatics == 2

\* the rotations and angular velocities a dynamic body may carry when step
\* is called: 0, pi, -pi, just beyond them, several turns, and the doubles
\* that absorb 2 * Math.PI
LoopRotations == {0, PI, -PI, PI + 1, -PI - 1, 1000, -2500, Infinity, -Infinity}
LoopVelocities == {0, 6000, -90000}

InitLoops ==
    /\ run \in [pc : {"call"}, rotation : LoopRotations,
                angularVelocity : LoopVelocities, statics : 0..MaxStatics,
                turns : {0}, collisionIterations : {0}, other : {1},
                hadCollision : {FALSE}]
    /\ world = Idle /\ before = Idle /\ stepCount = 0 /\ anim = Idle
    /\ actor = Idle /\ det = Idle /\ store = Idle /\ hero = Idle /\ editor = Idle

\* lines 571-590: damping, then rotation += angularVelocity * dt
Integrate ==
    /\ run.pc = "call"
    /\ LET av0 == Mul(run.angularVelocity, ANGULAR_DAMPING)
           av1 == IF Abs(av0) < 1 THEN 0 ELSE av0
       IN run' = [run EXCEPT !.pc = "whileAbove", !.angularVelocity = av1,
                             !.rotation = turned(@, av1, FIXED_DT)]
    /\ UNCHANGED <<world, before, stepCount, anim, actor, det, store, hero, editor>>

\* while (body.rotation > Math.PI) body.rotation -= 2 * Math.PI
WhileAbove ==
    /\ run.pc = "whileAbove"
    /\ run' = IF run.rotation > PI
              THEN [run EXCEPT !.rotation = lessTurn(@),
                               !.turns = (@ + 1) % TurnWrap]
              ELSE [run EXCEPT !.pc = "whileBelow", !.turns = 0]
    /\ UNCHANGED <<world, before, stepCount, anim, actor, det, store, hero, editor>>

\* while (body.rotation < -Math.PI) body.rotation += 2 * Math.PI
WhileBelow ==
    /\ run.pc = "whileBelow"
    /\ run' = IF run.rotation < -PI
              THEN [run EXCEPT !.rotation = moreTurn(@),
                               !.turns = (@ + 1) % TurnWrap]
              ELSE [run EXCEPT !.pc = "whileCollision", !.turns = 0]
    /\ UNCHANGED <<world, before, stepCount, anim, actor, det, store, hero, editor>>

\* one static body of the inner for loop: detectCollision reports a contact
\* or none, and a contact is resolved
ForOther ==
    /\ run.pc = "whileCollision"
    /\ run.collisionIterations < maxIterations
    /\ run.other <= run.statics
    /\ \E colliding \in BOOLEAN :
          run' = [run EXCEPT !.other = @ + 1,
                             !.hadCollision = @ \/ colliding]
    /\ UNCHANGED <<world, before, stepCount, anim, actor, det, store, hero, editor>>

\* the end of one pass: if (!hadCollision) break; collisionIterations++
EndPass ==
    /\ run.pc = "whileCollision"
    /\ run.collisionIterations < maxIterations
    /\ run.other > run.statics
    /\ run' = IF ~run.hadCollision
              THEN [run EXCEPT !.pc = "returned"]
              ELSE [run EXCEPT !.collisionIterations = @ + 1, !.other = 1,
                               !.hadCollision = FALSE]
    /\ UNCHANGED <<world, before, stepCount, anim, actor, det, store, hero, editor>>

\* while (collisionIterations < maxIterations) fails: the loop is left
LeaveCollision ==
    /\ run.pc = "whileCollision"
    /\ run.collisionIterations >= maxIterations
    /\ run' = [run EXCEPT !.pc = "returned"]
    /\ UNCHANGED <<world, before, stepCount, anim, actor, det, store, hero, editor>>

NextLoops ==
    Integrate \/ WhileAbove \/ WhileBelow \/ ForOther \/ EndPass \/ LeaveCollision

SpecLoops == InitLoops /\ [][NextLoops]_vars /\ WF_vars(NextLoops)

\* C12 (as claimed): every call of step returns, whatever the rotation and
\* the angular velocity of the body and however the contacts come out
C12_StepTerminates == <>(run.pc = "returned")

-----------------------------------------------------------------------------
(* SpecDegenerate: detectCollision applied to bodies of width or height 0 *)

DegenerateSizes == {<<0, 0>>, <<0, 40>>, <<40, 0>>, <<40, 40>>}
DegenerateXs == {0, 20, 100}
DegenerateYs == {0, 100}

DegenerateA ==
    {shaped("a", 0, 0, size, shape, rotation) :
        size \in DegenerateSizes, shape \in DetectShapes, rotation \in DetectRotations}

DegenerateB ==
    UNION {{shaped("b", x, y, size, shape, rotation) :
               x \in DegenerateXs, y \in DegenerateYs, size \in DegenerateSizes} :
           shape \in DetectShapes, rotation \in DetectRotations}

InitDegenerate ==
    /\ det \in [a : DegenerateA, b : DegenerateB, results : {<< >>}]
    /\ world = Idle /\ before = Idle /\ stepCount = 0 /\ anim = Idle
    /\ actor = Idle /\ store = Idle
    /\ run = Idle /\ hero = Idle /\ editor = Idle

SpecDegenerate == InitDegenerate /\ [][Detect]_vars

\* is the result colliding:false, or a finite overlap with a finite normal?
finiteContact(result) ==
    result.colliding =>
        /\ ~isNaN(result.normal)
        /\ -Infinity < result.overlap /\ result.overlap < Infinity
        /\ -Infinity < result.normal.x /\ result.normal.x < Infinity
        /\ -Infinity < result.normal.y /\ result.normal.y < Infinity

\* C13 (as claimed): for bodies with w >= 0 and h >= 0 detectCollision
\* returns colliding:false or a finite overlap with a finite normal
C13_FiniteContact ==
    det.results # << >> =>
        finiteContact(det.results[1]) /\ finiteContact(det.results[2])

-----------------------------------------------------------------------------
(* The Player: input, update, and the sub-step loop of the runtime *)

speed == 360
jumpImpulse == 720

\* The jump timers are doubles counted down by FIXED_DT = 1/60: from 0.1 the
\* rounded subtractions give 0.0833.., 0.0666.., 0.05.., 0.0333.., 0.0166..,
\* 2.08e-17 and then 0.  The timers are kept in tenths of a tick, 0.1 s being
\* 6001 so that the sixth subtraction leaves the positive remainder.
TimerUnit == 10
coyoteMax == 600 * TimerUnit + 1
jumpBufferMax == 600 * TimerUnit + 1

\* new Player(x, y)
newPlayer(x, y) ==
    [id |-> "player", x |-> x, y |-> y, w |-> 40 * SCALE, h |-> 48 * SCALE,
     vx |-> 0, vy |-> 0, isStatic |-> FALSE, onGround |-> FALSE,
     shape |-> "rect", rotation |-> 0,
     coyoteTime |-> 0, jumpBuffer |-> 0, spaceWasPressed |-> FALSE]

\* a jump allowed while grounded only
canJumpGrounded(p) == p.onGround

\* if (this.coyoteTime > 0), read after the coyote timer's own update
canJump(p) == p.coyoteTime > 0

\* a jump buffer that is spent before it is read
bufferedAfterDecay(p, dt) == p.jumpBuffer - dt * TimerUnit > 0

\* if (this.jumpBuffer > 0), read before the buffer decays
buffered(p, dt) == p.jumpBuffer > 0

\* an input that registers the press for as long as Space is down
inputWhileDown(p, keys) ==
    LET dir == (IF keys.left THEN -1 ELSE 0) + (IF keys.right THEN 1 ELSE 0)
    IN [p EXCEPT !.vx = dir * speed * SCALE,
                 !.jumpBuffer = IF keys.space THEN jumpBufferMax ELSE @,
                 !.spaceWasPressed = keys.space]

\* input(keys)
input(p, keys) ==
    LET dir == (IF keys.left THEN -1 ELSE 0) + (IF keys.right THEN 1 ELSE 0)
    IN [p EXCEPT !.vx = dir * speed * SCALE,
                 !.jumpBuffer = IF keys.space /\ ~p.spaceWasPressed
                                THEN jumpBufferMax ELSE @,
                 !.spaceWasPressed = keys.space]

\* update(world, dt) up to the call of animationController.update
playerUpdate(p, dt) ==
    LET timed == [p EXCEPT !.coyoteTime = IF p.onGround THEN coyoteMax
                                          ELSE Max(0, @ - dt * TimerUnit)]
        jumped == IF buffered(timed, dt) /\ canJump(timed)
                  THEN [timed EXCEPT !.vy = -jumpImpulse * SCALE,
                                     !.coyoteTime = 0, !.jumpBuffer = 0]
                  ELSE timed
    IN [jumped EXCEPT !.jumpBuffer = Max(0, @ - dt * TimerUnit)]

\* the keys the runtime hands to input: the right arrow and the space bar,
\* down or up
Keys == [left : {FALSE}, right : BOOLEAN, space : BOOLEAN]

\* what step leaves in the player's onGround and vy: resting on the floor or
\* on a brick, rising, falling
StepOutcomes ==
    {[onGround |-> TRUE, vy |-> 0], [onGround |-> FALSE, vy |-> -300 * SCALE],
     [onGround |-> FALSE, vy |-> 300 * SCALE]}

InitPlayer ==
    /\ hero = [player |-> newPlayer(100 * SCALE, 100 * SCALE), last |-> "new",
               prior |-> Idle]
    /\ anim = newController
    /\ world = Idle /\ before = Idle /\ stepCount = 0 /\ actor = Idle
    /\ det = Idle /\ store = Idle /\ run = Idle /\ editor = Idle

\* this.player.input(this.keys), once per frame before the sub-steps
Input ==
    /\ hero.last # "update"
    /\ \E keys \in Keys :
          hero' = [player |-> input(hero.player, keys), last |-> "input",
                   prior |-> Idle]
    /\ UNCHANGED <<world, before, stepCount, anim, actor, det, store, run, editor>>

\* this.player.update(this.world, FIXED_DT)
PlayerUpdate ==
    /\ hero.last \in {"input", "step"}
    /\ LET p == playerUpdate(hero.player, FIXED_DT)
       IN /\ (determineState(anim, p) = anim.currentState)
                => anim.stateTime + FIXED_DT <= MaxStateTime
          /\ hero' = [player |-> p, last |-> "update", prior |-> hero.player]
          /\ anim' = update(anim, p, FIXED_DT)
    /\ UNCHANGED <<world, before, stepCount, actor, det, store, run, editor>>

\* step(this.world, FIXED_DT), as far as the player's onGround and vy go
PhysicsStep ==
    /\ hero.last = "update"
    /\ \E out \in StepOutcomes :
          hero' = [hero EXCEPT !.player.onGround = out.onGround,
                               !.player.vy = out.vy, !.last = "step",
                               !.prior = Idle]
    /\ UNCHANGED <<world, before, stepCount, anim, actor, det, store, run, editor>>

\* hero.prior is the player as the last update found it
SpecPlayer == InitPlayer /\ [][Input \/ PlayerUpdate \/ PhysicsStep]_vars

\* C15 (as claimed): an airborne player with a newly registered press and
\* coyoteTime > 0 has vy = -jumpImpulse after the next update; with
\* coyoteTime = 0 an update of the airborne player leaves vy alone; an
\* update that executes a jump leaves coyoteTime = 0
C15_CoyoteWhilePositive ==
    [][hero'.last = "update" =>
          /\ (/\ ~hero.player.onGround
              /\ hero.player.jumpBuffer = jumpBufferMax
              /\ hero.player.coyoteTime > 0)
             => hero'.player.vy = -jumpImpulse * SCALE
          /\ (~hero.player.onGround /\ hero.player.coyoteTime = 0)
             => hero'.player.vy = hero.player.vy
          /\ hero'.player.vy = -jumpImpulse * SCALE => hero'.player.coyoteTime = 0]_vars

\* C15 (amended): the press is honoured when more than the dt of the next
\* update is left of coyoteTime, that is when that update comes less than
\* coyoteMax after the last grounded update; the rest as claimed
C15_CoyoteJump ==
    [][hero'.last = "update" =>
          /\ (/\ ~hero.player.onGround
              /\ hero.player.jumpBuffer = jumpBufferMax
              /\ hero.player.coyoteTime > FIXED_DT * TimerUnit)
             => hero'.player.vy = -jumpImpulse * SCALE
          /\ (/\ ~hero.player.onGround
              /\ hero.player.coyoteTime <= FIXED_DT * TimerUnit)
             => hero'.player.vy = hero.player.vy
          /\ hero'.player.vy = -jumpImpulse * SCALE => hero'.player.coyoteTime = 0]_vars

\* C15 witness: an update has just made the airborne player jump
C15_Witness ==
    /\ hero.last = "update"
    /\ ~hero.player.onGround
    /\ hero.player.vy = -jumpImpulse * SCALE
    /\ hero.player.coyoteTime = 0

\* C16: a new Space press sets jumpBuffer to jumpBufferMax and nothing else
\* does; an update that executes no jump takes dt off jumpBuffer, stopping at
\* 0; an update that finds the player grounded with jumpBuffer > 0 executes
\* the jump and empties the buffer; an update that finds jumpBuffer = 0
\* leaves vy alone, grounded or not
C16_JumpBuffer ==
    [][/\ hero'.last = "input" =>
             hero'.player.jumpBuffer =
                 IF ~hero.player.spaceWasPressed /\ hero'.player.spaceWasPressed
                 THEN jumpBufferMax ELSE hero.player.jumpBuffer
       /\ hero'.last = "update" =>
             /\ hero'.player.vy # -jumpImpulse * SCALE =>
                   hero'.player.jumpBuffer =
                       Max(0, hero.player.jumpBuffer - FIXED_DT * TimerUnit)
             /\ (hero.player.onGround /\ hero.player.jumpBuffer > 0) =>
                   /\ hero'.player.vy = -jumpImpulse * SCALE
                   /\ hero'.player.jumpBuffer = 0
             /\ hero.player.jumpBuffer = 0 => hero'.player.vy = hero.player.vy]_vars

\* C16 witness: a press made in the air after the coyote time had run out,
\* counted down by some updates, has just been executed by the first update
\* that found the player grounded
C16_Witness ==
    /\ hero.last = "update"
    /\ hero.prior.onGround /\ hero.prior.coyoteTime = 0
    /\ hero.prior.jumpBuffer > 0 /\ hero.prior.jumpBuffer < jumpBufferMax
    /\ hero.player.vy = -jumpImpulse * SCALE
    /\ hero.player.jumpBuffer = 0

-----------------------------------------------------------------------------
(* SpecSpin: step(world, 1/60) on a spinning body in a world without bricks *)

\* the rotations and angular velocities the body starts with: 0, pi and -pi,
\* just beyond them, whole turns away, and 0, 6 and -600 rad/s
SpinRotations == {0, PI, -PI, PI + 1, -PI - 1, 2 * PI, -3 * PI, 1000}
SpinVelocities == {0, 600, -60000}

spinning(body, rotation, angularVelocity) ==
    [body EXCEPT !.rotation = rotation, !.angularVelocity = angularVelocity]

InitSpin ==
    /\ \E r \in SpinRotations, av \in SpinVelocities :
          world = withBody(emptyWorld,
                           spinning(Character(300 * SCALE, 300 * SCALE,
                                              40 * SCALE, 48 * SCALE, 20), r, av))
    /\ before = world
    /\ stepCount = 0
    /\ anim = Idle /\ actor = Idle /\ det = Idle /\ store = Idle
    /\ run = Idle /\ hero = Idle /\ editor = Idle

SpecSpin == InitSpin /\ [][Step]_vars

-----------------------------------------------------------------------------
(* The level editor: its handlers on the world's bricks and the saved copy *)

MIN_BRICK_SIZE == 10

\* null as a brick reference, as a point and as a ghost brick, and the
\* saveRequestId of no request
NoBrick == << >>
NoPoint == << >>
NoGhost == [present |-> FALSE]
NoRequest == 0

\* degrees to radians and back (DEG2RAD, RAD2DEG), degrees being whole
toRadians(degrees) == RDiv(degrees * PI, 180)
toDegrees(radians) == RDiv(radians * 180, PI)

\* a % m for doubles: the remainder takes the sign of a
jsRemainder(a, m) == IF a >= 0 THEN a % m ELSE -((-a) % m)

\* the world with brick id replaced by b
withBrick(w0, id, b) ==
    [w0 EXCEPT !.bodies = [i \in DOMAIN w0.bodies |->
                              IF w0.bodies[i].id = id THEN b ELSE w0.bodies[i]]]

\* [...world.bricks].forEach((item) => removeBrick(world, item))
RECURSIVE removeAll(_, _)
removeAll(w0, ids) ==
    IF ids = << >> THEN w0 ELSE removeAll(removeBrick(w0, Head(ids)), Tail(ids))

\* new LevelEditor(game), with the saved copy the bricks were loaded from
newEditor(w0) ==
    [editMode |-> FALSE, selectedShape |-> "rect", selectedColor |-> <<90, 30, 30, 100>>,
     selectedRotation |-> 0, ghostBrick |-> NoGhost, dragStart |-> NoPoint,
     draggedBrick |-> NoBrick, hoverBrick |-> NoBrick, selectedBrick |-> NoBrick,
     currentLayer |-> 0, saveRequestId |-> NoRequest,
     saved |-> serializeBricks(w0), created |-> Len(w0.bricks), edits |-> 0]

\* a reset that forgets the drag in progress
resetSelectionOnly(e) ==
    [e EXCEPT !.selectedBrick = NoBrick, !.hoverBrick = NoBrick, !.ghostBrick = NoGhost]

\* resetSelectionState()
resetSelectionState(e) ==
    [e EXCEPT !.selectedBrick = NoBrick, !.hoverBrick = NoBrick,
              !.draggedBrick = NoBrick, !.ghostBrick = NoGhost, !.dragStart = NoPoint]

\* scheduleSave(): one animation-frame request at a time
scheduleSave(e) ==
    IF e.saveRequestId # NoRequest THEN e ELSE [e EXCEPT !.saveRequestId = 1]

\* saveBricks(): a pending request is cancelled, the bricks are written
saveBricks(e, w0) ==
    [e EXCEPT !.saveRequestId = NoRequest, !.saved = serializeBricks(w0)]

\* setActiveLayer(value)
setActiveLayer(e, value) ==
    [e EXCEPT !.currentLayer = value,
              !.ghostBrick = IF @.present THEN [@ EXCEPT !.z = value] ELSE @]

\* the inputs of the handlers: pointer positions in pixels, the brick under
\* the pointer (findBrickAtPoint), palette colours, shapes, slider angles in
\* degrees and layers
EditorPoints == {<<100, 100>>, <<300, 250>>}
Palette == {<<90, 30, 30, 100>>, <<30, 90, 30, 100>>}
EditorShapes == {"rect", "circle"}
SliderAngles == {0, 90}
Layers == {0, 1}
Modifiers == {"none", "shift", "ctrl"}

\* the bricks a pointer position may lie in, and none
Hits(w0) == {NoBrick} \cup brickIds(w0)

\* the editing events are counted up to MaxEdits
MaxEdits == 4

InitEditor ==
    /\ world \in {emptyWorld,
                  brick(emptyWorld, <<"brick", 1>>, 100 * SCALE, 100 * SCALE,
                        40 * SCALE, 40 * SCALE, << >>)}
    /\ editor = newEditor(world)
    /\ before = Idle /\ stepCount = 0 /\ anim = Idle /\ actor = Idle
    /\ det = Idle /\ store = Idle /\ run = Idle /\ hero = Idle

\* toggleEditMode(): it changes no brick and uses up no editing event
ToggleEditMode ==
    /\ editor' = [(IF editor.editMode THEN resetSelectionState(editor) ELSE editor)
                      EXCEPT !.editMode = ~editor.editMode]
    /\ UNCHANGED <<world, before, stepCount, anim, actor, det, store, run, hero>>

\* handleExistingBrickInteraction(event, brickCandidate, pointerWorldPos)
handleExistingBrickInteraction(e, w0, b, pos, modifier) ==
    LET layered == setActiveLayer(e, b.z \div SCALE)
    IN IF modifier = "shift"
       THEN [editor |-> scheduleSave(layered),
             world |-> withBrick(w0, b.id, [b EXCEPT !.color = e.selectedColor])]
       ELSE IF modifier = "ctrl"
       THEN [editor |-> [layered EXCEPT !.selectedRotation = toDegrees(b.rotation)],
             world |-> w0]
       ELSE [editor |-> [layered EXCEPT
                            !.selectedBrick = b.id, !.hoverBrick = b.id,
                            !.draggedBrick = b.id,
                            !.dragStart = <<pos[1] * SCALE - b.x, pos[2] * SCALE - b.y>>,
                            !.selectedShape = b.shape,
                            !.selectedRotation = toDegrees(b.rotation),
                            !.selectedColor = b.color],
             world |-> w0]

\* onPointerDown(event) with the main button
onPointerDown(e, w0, pos, hit, modifier) ==
    IF ~e.editMode THEN [editor |-> e, world |-> w0]
    ELSE IF hit # NoBrick
    THEN handleExistingBrickInteraction(e, w0, bodyOf(w0, hit), pos, modifier)
    ELSE [editor |-> [e EXCEPT !.selectedBrick = NoBrick,
                               !.dragStart = <<pos[1] * SCALE, pos[2] * SCALE>>,
                               !.ghostBrick = [present |-> TRUE, x |-> pos[1] * SCALE,
                                               y |-> pos[2] * SCALE, w |-> 0, h |-> 0,
                                               z |-> e.currentLayer]],
          world |-> w0]

PointerDown ==
    /\ editor.edits < MaxEdits
    /\ \E pos \in EditorPoints, hit \in Hits(world), modifier \in Modifiers :
          LET done == onPointerDown(editor, world, pos, hit, modifier)
          IN /\ editor' = [done.editor EXCEPT !.edits = @ + 1]
             /\ world' = done.world
    /\ UNCHANGED <<before, stepCount, anim, actor, det, store, run, hero>>

\* onPointerMove(event): the dragged brick follows the pointer, or the ghost
\* brick is stretched from dragStart to the pointer
onPointerMove(e, w0, pos, hit) ==
    LET hovering == [e EXCEPT !.hoverBrick = hit]
        px == pos[1] * SCALE
        py == pos[2] * SCALE
    IN IF ~e.editMode THEN [editor |-> e, world |-> w0]
       ELSE IF e.draggedBrick # NoBrick /\ e.dragStart # NoPoint
       THEN [editor |-> hovering,
             world |-> withBrick(w0, e.draggedBrick,
                                 [bodyOf(w0, e.draggedBrick) EXCEPT
                                     !.x = px - e.dragStart[1],
                                     !.y = py - e.dragStart[2]])]
       ELSE IF e.dragStart # NoPoint /\ e.ghostBrick.present
       THEN [editor |-> [hovering EXCEPT !.ghostBrick =
                            [present |-> TRUE,
                             x |-> Min(e.dragStart[1], px), y |-> Min(e.dragStart[2], py),
                             w |-> Abs(px - e.dragStart[1]), h |-> Abs(py - e.dragStart[2]),
                             z |-> e.currentLayer]],
             world |-> w0]
       ELSE [editor |-> hovering, world |-> w0]

PointerMove ==
    /\ editor.edits < MaxEdits
    /\ \E pos \in EditorPoints, hit \in Hits(world) :
          LET done == onPointerMove(editor, world, pos, hit)
          IN /\ editor' = [done.editor EXCEPT !.edits = @ + 1]
             /\ world' = done.world
    /\ UNCHANGED <<before, stepCount, anim, actor, det, store, run, hero>>

\* the brick onPointerUp makes of the ghost brick
ghostMade(e, w0) ==
    brick(w0, <<"brick", e.created + 1>>, e.ghostBrick.x, e.ghostBrick.y,
          e.ghostBrick.w, e.ghostBrick.h,
          [shape |-> e.selectedShape, color |-> e.selectedColor,
           rotation |-> toRadians(e.selectedRotation), z |-> e.ghostBrick.z * SCALE])

\* onPointerUp(event) with the main button
onPointerUp(e, w0) ==
    IF ~e.editMode THEN [editor |-> e, world |-> w0]
    ELSE IF e.draggedBrick # NoBrick
    THEN [editor |-> [saveBricks(e, w0) EXCEPT !.draggedBrick = NoBrick,
                                               !.dragStart = NoPoint],
          world |-> w0]
    ELSE IF e.dragStart = NoPoint \/ ~e.ghostBrick.present
    THEN [editor |-> e, world |-> w0]
    ELSE IF e.ghostBrick.w > MIN_BRICK_SIZE * SCALE /\ e.ghostBrick.h > MIN_BRICK_SIZE * SCALE
    THEN [editor |-> [saveBricks(e, ghostMade(e, w0)) EXCEPT
                         !.created = @ + 1, !.dragStart = NoPoint,
                         !.ghostBrick = NoGhost],
          world |-> ghostMade(e, w0)]
    ELSE [editor |-> [e EXCEPT !.dragStart = NoPoint, !.ghostBrick = NoGhost],
          world |-> w0]

\* the pointer is released: this ends a drag and uses up no editing event
PointerUp ==
    /\ editor' = onPointerUp(editor, world).editor
    /\ world' = onPointerUp(editor, world).world
    /\ UNCHANGED <<before, stepCount, anim, actor, det, store, run, hero>>

\* onWheel(event) without Alt or Ctrl: the brick under the pointer turns by
\* 15 degrees
onWheel(e, w0, delta) ==
    LET target == IF e.draggedBrick # NoBrick THEN e.draggedBrick ELSE e.hoverBrick
        wrapped(r) == IF r < 0 THEN r + 2 * PI ELSE r
        turnedBrick(b) ==
            [b EXCEPT !.rotation = wrapped(jsRemainder(@ + toRadians(delta), 2 * PI))]
    IN IF ~e.editMode \/ target = NoBrick THEN [editor |-> e, world |-> w0]
       ELSE [editor |-> saveBricks(e, withBrick(w0, target, turnedBrick(bodyOf(w0, target)))),
             world |-> withBrick(w0, target, turnedBrick(bodyOf(w0, target)))]

Wheel ==
    /\ editor.edits < MaxEdits
    /\ \E delta \in {-15, 15} :
          LET done == onWheel(editor, world, delta)
          IN /\ editor' = [done.editor EXCEPT !.edits = @ + 1]
             /\ world' = done.world
    /\ UNCHANGED <<before, stepCount, anim, actor, det, store, run, hero>>

\* the panel's controls: setSelectedColor, setSelectedShape and
\* setSelectedRotation change the selected brick and schedule a save
PickStyle ==
    /\ editor.edits < MaxEdits
    /\ \E control \in {"color", "shape", "rotation"}, color \in Palette,
          shape \in EditorShapes, degrees \in SliderAngles :
          LET picked == IF control = "color" THEN [editor EXCEPT !.selectedColor = color]
                        ELSE IF control = "shape" THEN [editor EXCEPT !.selectedShape = shape]
                        ELSE [editor EXCEPT !.selectedRotation = degrees]
              restyled(b) == IF control = "color" THEN [b EXCEPT !.color = color]
                             ELSE IF control = "shape" THEN [b EXCEPT !.shape = shape]
                             ELSE [b EXCEPT !.rotation = toRadians(degrees)]
          IN IF editor.selectedBrick # NoBrick
             THEN /\ editor' = [scheduleSave(picked) EXCEPT !.edits = @ + 1]
                  /\ world' = withBrick(world, editor.selectedBrick,
                                        restyled(bodyOf(world, editor.selectedBrick)))
             ELSE /\ editor' = [picked EXCEPT !.edits = @ + 1]
                  /\ world' = world
    /\ UNCHANGED <<before, stepCount, anim, actor, det, store, run, hero>>

\* the depth slider (setActiveLayer) followed by the apply-depth button
\* (applyDepthToSelection)
ApplyDepth ==
    /\ editor.edits < MaxEdits
    /\ \E layer \in Layers :
          LET layered == setActiveLayer(editor, layer)
              b == bodyOf(world, editor.selectedBrick)
              sunk == withBrick(world, editor.selectedBrick, [b EXCEPT !.z = layer * SCALE])
          IN IF editor.selectedBrick # NoBrick /\ b.z # layer * SCALE
             THEN /\ editor' = [saveBricks(layered, sunk) EXCEPT !.edits = @ + 1]
                  /\ world' = sunk
             ELSE /\ editor' = [layered EXCEPT !.edits = @ + 1]
                  /\ world' = world
    /\ UNCHANGED <<before, stepCount, anim, actor, det, store, run, hero>>

\* a delete button that clears selectedBrick alone
DeleteSelectedOnly ==
    /\ editor.edits < MaxEdits
    /\ editor.selectedBrick # NoBrick
    /\ world' = removeBrick(world, editor.selectedBrick)
    /\ editor' = [saveBricks(editor, world') EXCEPT
                     !.selectedBrick = NoBrick, !.edits = @ + 1]
    /\ UNCHANGED <<before, stepCount, anim, actor, det, store, run, hero>>

\* the delete button
DeleteSelected ==
    /\ editor.edits < MaxEdits
    /\ editor.selectedBrick # NoBrick
    /\ world' = removeBrick(world, editor.selectedBrick)
    /\ editor' = [saveBricks(editor, world') EXCEPT
                     !.selectedBrick = NoBrick, !.hoverBrick = NoBrick,
                     !.draggedBrick = NoBrick, !.edits = @ + 1]
    /\ UNCHANGED <<before, stepCount, anim, actor, det, store, run, hero>>

\* the clear-all button, confirmed
ClearAll ==
    /\ editor.edits < MaxEdits
    /\ world' = removeAll(world, world.bricks)
    /\ editor' = [saveBricks(resetSelectionState(editor), world') EXCEPT !.edits = @ + 1]
    /\ UNCHANGED <<before, stepCount, anim, actor, det, store, run, hero>>

\* the animation-frame callback of scheduleSave
FrameCallback ==
    /\ editor.saveRequestId # NoRequest
    /\ editor' = saveBricks(editor, world)
    /\ UNCHANGED <<world, before, stepCount, anim, actor, det, store, run, hero>>

\* onKeyDown(event): the bracket keys shift the active layer by one, F takes
\* the layer of the selected brick
onKeyDown(e, w0, code) ==
    IF ~e.editMode THEN e
    ELSE IF code = "BracketLeft" THEN setActiveLayer(e, e.currentLayer - 1)
    ELSE IF code = "BracketRight" THEN setActiveLayer(e, e.currentLayer + 1)
    ELSE IF code = "KeyF" /\ e.selectedBrick # NoBrick
    THEN setActiveLayer(e, bodyOf(w0, e.selectedBrick).z \div SCALE)
    ELSE e

\* a key goes down; the layers stay among Layers
KeyDown ==
    /\ editor.edits < MaxEdits
    /\ \E code \in {"BracketLeft", "BracketRight", "KeyF", "Space"} :
          /\ onKeyDown(editor, world, code).currentLayer \in Layers
          /\ editor' = [onKeyDown(editor, world, code) EXCEPT !.edits = @ + 1]
    /\ UNCHANGED <<world, before, stepCount, anim, actor, det, store, run, hero>>

NextEditor ==
    \/ ToggleEditMode \/ PointerDown \/ PointerMove \/ PointerUp \/ Wheel
    \/ PickStyle \/ ApplyDepth \/ DeleteSelected \/ ClearAll \/ FrameCallback
    \/ KeyDown

\* scheduled animation-frame callbacks fire, and a pressed pointer is released
SpecEditor ==
    InitEditor /\ [][NextEditor]_vars /\ WF_vars(FrameCallback) /\ WF_vars(PointerUp)

\* C20 (as claimed): whenever the bricks of the world differ from the saved
\* copy, saveBricks is eventually called on the world as it then is
C20_EventuallySaved ==
    [](editor.saved # serializeBricks(world) => <>(editor.saved = serializeBricks(world)))

\* C29: whenever editMode is false, selectedBrick, draggedBrick, hoverBrick,
\* ghostBrick and dragStart are null; and with editMode false a pointer-down,
\* pointer-move, pointer-up, wheel or keydown event changes neither the
\* editor's state nor the world's bricks, also after a toggle in mid-drag
C29_InertOutsideEditMode ==
    [][/\ ~editor'.editMode =>
             /\ editor'.selectedBrick = NoBrick /\ editor'.draggedBrick = NoBrick
             /\ editor'.hoverBrick = NoBrick /\ editor'.ghostBrick = NoGhost
             /\ editor'.dragStart = NoPoint
       /\ (/\ ~editor.editMode
           /\ PointerDown \/ PointerMove \/ PointerUp \/ Wheel \/ KeyDown) =>
             /\ world' = world
             /\ [editor' EXCEPT !.edits = editor.edits] = editor]_vars

\* C29 witness: a brick was being dragged when edit mode was left (its new
\* place is not saved), and two more events have come since
C29_Witness ==
    /\ ~editor.editMode /\ editor.edits = MaxEdits
    /\ Len(world.bricks) = 1
    /\ editor.saved # serializeBricks(world)

\* C30: after every handler selectedBrick, draggedBrick and hoverBrick are
\* each null or a brick of world.bricks
C30_NoDanglingBrick ==
    /\ editor.selectedBrick \in Hits(world)
    /\ editor.draggedBrick \in Hits(world)
    /\ editor.hoverBrick \in Hits(world)

\* C30 witness: the selected brick has been deleted while the pointer, still
\* in edit mode, lay over it, and another brick is left in the world
C30_Witness ==
    /\ editor.editMode /\ editor.created = 2 /\ Len(world.bricks) = 1
    /\ editor.selectedBrick = NoBrick /\ editor.hoverBrick = NoBrick

-----------------------------------------------------------------------------
(* SpecRuntime: GameRuntime.update(dt, isEditMode), called by the frame     *)
(* loop and by any other caller, with its loop of fixed sub-steps           *)

MAX_DT == 120                  \* 0.02 s, in ticks

\* new Player(x, y) of the runtime: the Character with the jump timers
gamePlayer(x, y) ==
    Character(x, y, 40 * SCALE, 48 * SCALE, 20)
        @@ [coyoteTime |-> 0, jumpBuffer |-> 0, spaceWasPressed |-> FALSE]

\* this.player, the first body of the runtime's world
thePlayer(w0) == w0.bodies[1]

\* what AnimationController.update reads of the player
physical(p) == [x |-> p.x, y |-> p.y, vx |-> p.vx, vy |-> p.vy, onGround |-> p.onGround]

\* update never returns early
frozenNever(isEditMode) == FALSE

\* if (isEditMode) return
frozen(isEditMode) == isEditMode

\* a loop that leaves a whole sub-step in the accumulator
subStepDueStrict(accumulator) == accumulator > FIXED_DT

\* while (this.accumulator >= FIXED_DT)
subStepDue(accumulator) == accumulator >= FIXED_DT

\* the constructor, and the bricks found in storage: none, or a 200 x 50 rect
\* two pixels below the player's feet
RuntimeWorlds ==
    LET w0 == withBody(emptyWorld, gamePlayer(100 * SCALE, 100 * SCALE))
    IN {w0, brick(w0, "b1", 80 * SCALE, 150 * SCALE, 200 * SCALE, 50 * SCALE, << >>)}

\* the time between two frames, in ticks: a clock that went back, 0, most of
\* a sub-step, a sub-step, and a pause far longer than MAX_DT
RawDeltas == {-50, 0, 90, 100, 1300}

\* the dt of a call of update made by another caller
CallDts == {250}

\* this.keys: nothing, the right arrow, the space bar
RuntimeKeys == {k \in Keys : ~(k.right /\ k.space)}

\* the number of update calls followed
MaxFrames == 3

InitRuntime ==
    /\ world \in RuntimeWorlds
    /\ anim = newController
    /\ run = [pc |-> "idle", last |-> "new", accumulator |-> 0, frames |-> 0,
              args |-> Idle, entered |-> 0, subSteps |-> 0, seen |-> Idle,
              passed |-> << >>, clamped |-> FALSE, isEditMode |-> FALSE]
    /\ before = Idle /\ stepCount = 0 /\ actor = Idle /\ det = Idle
    /\ store = Idle /\ hero = Idle /\ editor = Idle

\* update(dt, isEditMode) up to the loop, as the runtime and the world it
\* leaves: run.entered is the accumulator the call found, run.args its
\* arguments
enterUpdate(dt, isEditMode, keys, clamped) ==
    LET called == [run EXCEPT !.last = "call", !.frames = @ + 1,
                              !.args = [dt |-> dt, isEditMode |-> isEditMode],
                              !.entered = run.accumulator, !.subSteps = 0,
                              !.passed = << >>, !.clamped = clamped,
                              !.isEditMode = isEditMode]
    IN IF frozen(isEditMode)
       THEN [run |-> called, world |-> world]
       ELSE [run |-> [called EXCEPT !.pc = "loop", !.accumulator = @ + dt],
             world |-> [world EXCEPT !.bodies[1] = input(@, keys)]]

\* gameLoop(time): dt = Math.min(Math.max(rawDelta, 0), getMaxDelta()), then
\* runtime.update(dt, editor.isEditMode())
GameLoop ==
    /\ run.pc = "idle" /\ run.frames < MaxFrames
    /\ \E rawDelta \in RawDeltas, isEditMode \in BOOLEAN, keys \in RuntimeKeys :
          LET dt == Min(Max(rawDelta, 0), MAX_DT)
          IN /\ run' = enterUpdate(dt, isEditMode, keys, TRUE).run
             /\ world' = enterUpdate(dt, isEditMode, keys, TRUE).world
    /\ UNCHANGED <<before, stepCount, anim, actor, det, store, hero, editor>>

\* update(dt, isEditMode) called with a dt of the caller's own
UpdateCall ==
    /\ run.pc = "idle" /\ run.frames < MaxFrames
    /\ \E dt \in CallDts, isEditMode \in BOOLEAN, keys \in RuntimeKeys :
          /\ run' = enterUpdate(dt, isEditMode, keys, FALSE).run
          /\ world' = enterUpdate(dt, isEditMode, keys, FALSE).world
    /\ UNCHANGED <<before, stepCount, anim, actor, det, store, hero, editor>>

\* this.player.update(this.world, FIXED_DT): the jump timers, then
\* animationController.update(this, dt) on the player as it is then
SubStepUpdate ==
    /\ run.pc = "loop" /\ subStepDue(run.accumulator)
    /\ LET p == playerUpdate(thePlayer(world), FIXED_DT)
       IN /\ world' = [world EXCEPT !.bodies[1] = p]
          /\ anim' = update(anim, p, FIXED_DT)
          /\ run' = [run EXCEPT !.pc = "updated", !.last = "update",
                                !.seen = physical(p),
                                !.passed = Append(@, FIXED_DT)]
    /\ UNCHANGED <<before, stepCount, actor, det, store, hero, editor>>

\* step(this.world, FIXED_DT); this.accumulator -= FIXED_DT
SubStepStep ==
    /\ run.pc = "updated"
    /\ world' = step(world, FIXED_DT)
    /\ run' = [run EXCEPT !.pc = "loop", !.last = "step",
                          !.accumulator = @ - FIXED_DT, !.subSteps = @ + 1,
                          !.passed = Append(@, FIXED_DT)]
    /\ UNCHANGED <<before, stepCount, anim, actor, det, store, hero, editor>>

\* the loop's test fails and update returns
Return ==
    /\ run.pc = "loop" /\ ~subStepDue(run.accumulator)
    /\ run' = [run EXCEPT !.pc = "idle", !.last = "return"]
    /\ UNCHANGED <<world, before, stepCount, anim, actor, det, store, hero, editor>>

NextRuntime == GameLoop \/ UpdateCall \/ SubStepUpdate \/ SubStepStep \/ Return

SpecRuntime == InitRuntime /\ [][NextRuntime]_vars

\* C21 (as claimed): in every sub-step the player's update runs before step,
\* and what the animation update of the sub-step read of the player (x, y,
\* vx, vy, onGround) is what the step call of that sub-step produced
C21_AnimationReadsStepped ==
    run.last = "step" =>
        /\ Len(run.passed) = 2 * run.subSteps
        /\ run.seen = physical(thePlayer(world))

C28_EditModeFreezes ==
    [][(run'.last = "call" /\ run'.frames # run.frames /\ run'.args.isEditMode) =>
          /\ run'.pc = "idle"
          /\ run'.accumulator = run.accumulator
          /\ world' = world
          /\ anim' = anim]_vars

\* C28 witness: the second of two consecutive calls in edit mode, with a
\* positive dt, made when the player was moving and the accumulator held a
\* remainder
C28_Witness ==
    /\ run.last = "call" /\ run.args.isEditMode /\ run.args.dt > 0
    /\ run.frames = 3 /\ run.pc = "idle" /\ run.accumulator > 0
    /\ thePlayer(world).vy # 0

-----------------------------------------------------------------------------
(* SpecResolve: one turn of step's inner loop, detectCollision(body, other) *)
(* and, on a contact, resolveCollision(body, other, result), for a dynamic  *)
(* 40 x 48 rect and a static 200 x 50 brick at (500, 500)                   *)

\* where the body is put: 4 px into the brick's top, into its left side,
\* into its underside, 12 px into its top, and clear of it
ResolvePlaces ==
    {[x |-> 550 * SCALE, y |-> 456 * SCALE], [x |-> 464 * SCALE, y |-> 501 * SCALE],
     [x |-> 550 * SCALE, y |-> 546 * SCALE], [x |-> 550 * SCALE, y |-> 464 * SCALE],
     [x |-> 550 * SCALE, y |-> 300 * SCALE]}

\* the velocities of the body, the restitutions of body and brick, and the
\* masses a Character is given (its area, or options.mass = 0)
ResolveVx == {-200 * SCALE, 0, 200 * SCALE}
ResolveVy == {-300 * SCALE, 0, 300 * SCALE}
ResolveRestitutions == {0, 20, 50}
ResolveMassless == BOOLEAN

\* new Character(x, y, {restitution, mass}) moving at (vx, vy)
resolveBody(place, vx, vy, restitution, massless) ==
    LET c == Character(place.x, place.y, 40 * SCALE, 48 * SCALE, restitution)
    IN IF massless THEN [c EXCEPT !.vx = vx, !.vy = vy, !.mass = 0, !.invMass = 0]
       ELSE [c EXCEPT !.vx = vx, !.vy = vy]

InitResolve ==
    /\ \E place \in ResolvePlaces, vx \in ResolveVx, vy \in ResolveVy,
          r \in ResolveRestitutions, e \in ResolveRestitutions,
          massless \in ResolveMassless :
          LET body == resolveBody(place, vx, vy, r, massless)
              other == newBrick("b1", 500 * SCALE, 500 * SCALE, 200 * SCALE,
                                50 * SCALE, [restitution |-> e])
          IN det = [body |-> body, other |-> other, done |-> FALSE,
                    result |-> NotColliding,
                    resolved |-> [body |-> body, other |-> other]]
    /\ world = Idle /\ before = Idle /\ stepCount = 0 /\ anim = Idle
    /\ actor = Idle /\ store = Idle /\ run = Idle /\ hero = Idle /\ editor = Idle

\* const result = detectCollision(body, other);
\* if (result.colliding) resolveCollision(body, other, result)
ResolveContact ==
    /\ ~det.done
    /\ LET result == detectCollision(det.body, det.other)
       IN det' = [det EXCEPT
                     !.done = TRUE, !.result = result,
                     !.resolved = IF result.colliding
                                  THEN resolveCollision(det.body, det.other, result)
                                  ELSE @]
    /\ UNCHANGED <<world, before, stepCount, anim, actor, store, run, hero, editor>>

SpecResolve == InitResolve /\ [][ResolveContact]_vars

\* C23 (as claimed): after resolveCollision on a contact with a static body
\* whose normal has y < -0.3 the dynamic body has onGround = true, whatever
\* its velocity and inverse mass
C23_GroundContactGrounds ==
    (det.done /\ det.result.colliding /\ det.result.normal.y < -30) =>
        det.resolved.body.onGround

\* C25 (as claimed): the restitution of the impulse is the smaller of the two
\* bodies' restitutions, a restitution 0 of the other body included: a body
\* of positive inverse mass that approached the static body along the normal
\* at speed v leaves it along the normal at min(restitution, other.restitution) * v
C25_MinRestitution ==
    (/\ det.done /\ det.result.colliding /\ det.body.invMass > 0
     /\ det.result.normal = [x |-> -SCALE, y |-> 0] /\ det.body.vx > 0) =>
        /\ chosenRestitution(det.body, det.other)
              = Min(det.body.restitution, det.other.restitution)
        /\ det.resolved.body.vx
              = -Mul(Min(det.body.restitution, det.other.restitution), det.body.vx)

\* C26 (as claimed): after resolveCollision has moved the body by
\* normal * overlap, detectCollision on the same pair reports no collision,
\* and the next pass of step's collision loop over the two has no collision
C26_CorrectionSeparates ==
    (det.done /\ det.result.colliding) =>
        /\ ~detectCollision(det.resolved.body, det.resolved.other).colliding
        /\ ~resolvePass(<<det.resolved.body, det.resolved.other>>, 1, 1, FALSE).hadCollision

-----------------------------------------------------------------------------
(* SpecEdge: step(world, 1/60) on a 40 x 48 body near the left or the right *)
(* edge of the world, with or without a brick next to the edge              *)

\* no brick, a 200 x 100 brick 30 px from the left edge, one 30 px from the
\* right edge
EdgeLayouts ==
    { << >>,
      << <<30, 880, 200, 100, [shape |-> "rect"]>> >>,
      << <<1690, 880, 200, 100, [shape |-> "rect"]>> >> }

EdgeXs == {0, 5, 300, 1875, 1880}
EdgeVx == {0, 36000, -36000}

InitEdge ==
    /\ \E layout \in EdgeLayouts, x \in EdgeXs, vx \in EdgeVx, r \in {0, 20} :
          world = withBody(withBricks(emptyWorld, layout, 1),
                           moving(Character(x * SCALE, 900 * SCALE,
                                            40 * SCALE, 48 * SCALE, r), vx, 0))
    /\ before = world
    /\ stepCount = 0
    /\ anim = Idle /\ actor = Idle /\ det = Idle /\ store = Idle
    /\ run = Idle /\ hero = Idle /\ editor = Idle

SpecEdge == InitEdge /\ [][Step]_vars

\* C24 (as claimed): after every step every dynamic body no wider than the
\* world has 0 <= x <= world.width - w, also when a static body next to the
\* edge of the world is resolved after the clamp
C24_WithinWorld ==
    stepCount > 0 =>
        \A i \in Dynamic(world) :
            world.bodies[i].w <= world.width =>
                /\ 0 <= world.bodies[i].x
                /\ world.bodies[i].x <= world.width - world.bodies[i].w

-----------------------------------------------------------------------------
(* SpecJump: Player.input, Player.update and step called in any order, with *)
(* the presses of Space and the jumps counted                               *)

\* the number of presses of Space followed
MaxPresses == 2

\* does update(world, dt) execute a jump on this player?  (the update is run
\* on the player with vy cleared, and vy looked at afterwards)
jumpExecuted(p, dt) == playerUpdate([p EXCEPT !.vy = 0], dt).vy = -jumpImpulse * SCALE

\* hero.presses: rising edges of Space seen by input; hero.jumps: jumps
\* executed; hero.pressedSince, hero.groundedSince: since the last jump, has
\* there been a rising edge, has an update found onGround true
InitJump ==
    /\ hero = [player |-> newPlayer(100 * SCALE, 100 * SCALE), last |-> "new",
               presses |-> 0, jumps |-> 0,
               pressedSince |-> FALSE, groundedSince |-> FALSE]
    /\ world = Idle /\ before = Idle /\ stepCount = 0 /\ anim = Idle
    /\ actor = Idle /\ det = Idle /\ store = Idle /\ run = Idle /\ editor = Idle

\* player.input(keys)
AnyInput ==
    /\ \E keys \in Keys :
          LET rising == keys.space /\ ~hero.player.spaceWasPressed
          IN /\ rising => hero.presses < MaxPresses
             /\ hero' = [hero EXCEPT !.player = input(@, keys), !.last = "input",
                                     !.presses = IF rising THEN @ + 1 ELSE @,
                                     !.pressedSince = @ \/ rising]
    /\ UNCHANGED <<world, before, stepCount, anim, actor, det, store, run, editor>>

\* player.update(world, FIXED_DT), the animation apart
AnyUpdate ==
    /\ LET jumps == jumpExecuted(hero.player, FIXED_DT)
       IN hero' = [hero EXCEPT
                      !.player = playerUpdate(@, FIXED_DT), !.last = "update",
                      !.jumps = IF jumps THEN @ + 1 ELSE @,
                      !.pressedSince = IF jumps THEN FALSE ELSE @,
                      !.groundedSince = IF jumps THEN FALSE
                                        ELSE @ \/ hero.player.onGround]
    /\ UNCHANGED <<world, before, stepCount, anim, actor, det, store, run, editor>>

\* step(world, FIXED_DT), as far as the player's onGround and vy go
AnyStep ==
    /\ \E out \in StepOutcomes :
          hero' = [hero EXCEPT !.player.onGround = out.onGround,
                               !.player.vy = out.vy, !.last = "step"]
    /\ UNCHANGED <<world, before, stepCount, anim, actor, det, store, run, editor>>

SpecJump == InitJump /\ [][AnyInput \/ AnyUpdate \/ AnyStep]_vars

\* C27: in any order of input, update and step calls the jumps executed never
\* outnumber the rising edges of Space seen by input; a jump is executed only
\* when, since the jump before it, input has seen a new press and an update
\* (this one included) has found onGround true, so that holding Space down
\* gives no second jump
C27_OneJumpPerPress ==
    [][/\ hero'.jumps <= hero'.presses
       /\ hero'.jumps > hero.jumps =>
             /\ hero.pressedSince
             /\ hero.groundedSince \/ hero.player.onGround]_vars

\* C27 witness: two presses have given two jumps, Space is still down after
\* the second and updates have found the player grounded since
C27_Witness ==
    /\ hero.jumps = 2 /\ hero.presses = 2
    /\ hero.player.spaceWasPressed /\ hero.groundedSince /\ hero.last = "update"

====
